---- MODULE Spec2Model ----
(***************************************************************************)
(* Model of the git_plus commit-graph extension:                           *)
(*   src/src/webview/graph/graphRenderer.ts                                *)
(*     calculateLanes, calculateRowGraphData, areCommitsConsecutive        *)
(*   GraphView (src/unnamed/part_002), which calls them on every render    *)
(*     and keeps the selection and the two context menus                   *)
(*   src/src/gitOperations.ts, the operations that change history          *)
(*   src/src/gitGraphView.ts, the provider that refreshes the view and     *)
(*     keeps the one editor panel                                          *)
(*   src/src/extension.ts, the deleteBranch and pushForce commands         *)
(*                                                                         *)
(* Arrays of the source are modelled as functions with domain 0..n-1, so   *)
(* that row numbers and parent positions are the source's own (0-based).   *)
(* A JavaScript Map is a function whose DOMAIN is the set of its keys.     *)
(* A "T | null" value is the empty sequence or a sequence of one element.  *)
(***************************************************************************)
EXTENDS Integers, Sequences, FiniteSets, TLC

\* ------------------------------------------------------------------------
\* Bounds of the model
\* ------------------------------------------------------------------------
MaxCommits == 4
MaxParents == 3
MaxEdges == 4

\* mutating operations started, and view refreshes started, in one run
MaxOperations == 2

MaxRefreshes == 3

\* webview panels created in one run, and editor columns of the window
MaxPanels == 4

MaxColumns == 3

\* commits on the checked-out branch when a command is invoked
MaxHistory == 4

\* ------------------------------------------------------------------------
\* 0-based arrays
\* ------------------------------------------------------------------------
ArrLen(a) == Cardinality(DOMAIN a)

ArrPush(a, x) == [i \in 0..ArrLen(a) |-> IF i = ArrLen(a) THEN x ELSE a[i]]

Arr(s) == [i \in 0..(Len(s) - 1) |-> s[i + 1]]

ArrValues(a) == {a[i] : i \in DOMAIN a}

ArrIncludes(a, x) == \E i \in DOMAIN a : a[i] = x

\* Array.prototype.filter with the predicate "element # x"
RECURSIVE FilterNe(_, _, _)
FilterNe(a, x, k) ==
    IF k = 0 THEN <<>>
    ELSE LET rest == FilterNe(a, x, k - 1)
         IN  IF a[k - 1] # x THEN ArrPush(rest, a[k - 1]) ELSE rest

\* mutant: an array instead of a Set, every add appends
SetAddAlways(a, x) == ArrPush(a, x)

\* Set.prototype.add on a set kept in insertion order
SetAdd(a, x) == IF ArrIncludes(a, x) THEN a ELSE ArrPush(a, x)

\* Map.prototype.set / delete
MapSet(m, k, v) == [x \in (DOMAIN m) \cup {k} |-> IF x = k THEN v ELSE m[x]]

\* mutant: delete removes nothing
MapDeleteNothing(m, k) == m

MapDelete(m, k) == [x \in (DOMAIN m) \ {k} |-> m[x]]

EmptyMap == <<>>

\* ------------------------------------------------------------------------
\* Commit lists (GitCommit[]): unique hashes, parents distinct and not the
\* commit itself, parent relation acyclic; a parent may be outside the list
\* and the list may be in any order.
\* ------------------------------------------------------------------------
HashNames == <<"c3", "c2", "c1", "b1", "a1", "a2", "a3", "a4">>

UnknownHash == "ext"

ListHashes(n) == {HashNames[r + 1] : r \in 0..(n - 1)}

Min(a, b) == IF a < b THEN a ELSE b

Max(a, b) == IF a > b THEN a ELSE b

InjectiveArrays(S, k) ==
    {f \in [0..(k - 1) -> S] : \A i, j \in 0..(k - 1) : i # j => f[i] # f[j]}

ParentChoices(r, n, k) ==
    InjectiveArrays((ListHashes(n) \ {HashNames[r + 1]}) \cup {UnknownHash}, k)

RECURSIVE Peel(_, _)
Peel(cs, remaining) ==
    IF remaining = {} THEN TRUE
    ELSE LET roots == {r \in remaining :
                          \A q \in remaining : ~ArrIncludes(cs[r].parents, cs[q].hash)}
         IN  roots # {} /\ Peel(cs, remaining \ roots)

Acyclic(cs) == Peel(cs, DOMAIN cs)

VARIABLES
    commits,        \* GraphView prop: GitCommit[]
    pc,             \* position of the render pass
    idx,            \* calculateLanes: index of the next commit of the for-of loop
    commitLanes,    \* calculateLanes: Map<string, number>
    reservedLanes,  \* calculateLanes: Map<string, number>
    nextLane,       \* calculateLanes: let nextLane
    rows,           \* calculateRowGraphData: RowGraphData[]
    sortedIndices,  \* areCommitsConsecutive: argument of the last call
    consecutive,    \* areCommitsConsecutive: result of the last call
    call,           \* which call of calculateLanes is running: "first", "other", "again"
    memo,           \* input and results of the first call (history variable)
    selectedIndices,  \* GraphView state: Set<number>
    rangeStartIndex,  \* GraphView state: number | null
    singleMenu,       \* GraphView state: SingleMenu | null
    rangeMenu,        \* GraphView state: RangeMenu | null
    editingHash,      \* GraphView state: string | null
    posted,           \* vscode.postMessage: the message posted last, until the host takes it
    gitCommand,       \* GitOperations: the command line given to cp.exec last
    issued,           \* GitOperations: number of mutating operations started so far
    running,          \* GitOperations: operations whose git command has not called back
    scriptFiles,      \* os.tmpdir(): which operation wrote the two editor scripts last
    started,          \* view provider: number of updateWebview calls so far
    inflight,         \* view provider: updateWebview calls awaiting their git output
    shown,            \* view provider: the call whose result webview.html holds
    currentPanel,     \* GitGraphViewProvider.currentPanel: WebviewPanel | undefined
    panels,           \* the webview panels created so far, disposed ones included
    workspaceFolder,  \* vscode.workspace.workspaceFolders has a first folder
    repo,             \* the git repository of that folder
    before,           \* the repository when the running command was invoked
    handler,          \* the command handler in progress, "none" before one is invoked
    step,             \* where it waits: a prompt, a git process, or "returned"
    frame,            \* its arguments and local constants
    prompt,           \* the prompt on screen: null, or its items
    answers,          \* what the user answered to its prompts, in order
    child,            \* the git process started by cp.exec that has not called back
    execs,            \* the git processes that called back, with their results
    onRefreshCalls,   \* calls of GitOperations.onRefresh
    branchRefreshCalls  \* calls of branchProvider.refresh

callVars == <<call, memo>>

viewVars == <<selectedIndices, rangeStartIndex, singleMenu, rangeMenu, editingHash,
              posted, gitCommand>>

hostVars == <<issued, running, scriptFiles, started, inflight, shown>>

panelVars == <<currentPanel, panels>>

commandVars == <<workspaceFolder, repo, before, handler, step, frame, prompt, answers,
                 child, execs, onRefreshCalls, branchRefreshCalls>>

extensionVars == <<panelVars, commandVars>>

vars == <<commits, pc, idx, commitLanes, reservedLanes, nextLane, rows,
          sortedIndices, consecutive, callVars, viewVars, hostVars, extensionVars>>

laneVars == <<idx, commitLanes, reservedLanes, nextLane, rows>>

selVars == <<sortedIndices, consecutive>>

\* ------------------------------------------------------------------------
\* calculateLanes
\* ------------------------------------------------------------------------
\* mutant: the loop is missing, the lane is the starting value
LowestFreeNoLoop(usedLanes, newLane) == newLane

\* while (usedLanes.has(newLane)) { newLane++; }
RECURSIVE LowestFree(_, _)
LowestFree(usedLanes, newLane) ==
    IF newLane \in usedLanes THEN LowestFree(usedLanes, newLane + 1) ELSE newLane

\* mutant: an additional parent takes nextLane instead of the lowest free lane
ReserveAdditionalFresh(st, parent) ==
    IF parent \in DOMAIN st.reservedLanes THEN st
    ELSE [reservedLanes |-> MapSet(st.reservedLanes, parent, st.nextLane),
          nextLane |-> st.nextLane + 1]

\* mutant: nextLane is raised one lane too far
ReserveAdditionalRaisesTwice(st, parent) ==
    IF parent \in DOMAIN st.reservedLanes THEN st
    ELSE LET usedLanes == {st.reservedLanes[h] : h \in DOMAIN st.reservedLanes}
             newLane == LowestFree(usedLanes, 0)
         IN  [reservedLanes |-> MapSet(st.reservedLanes, parent, newLane),
              nextLane |-> Max(st.nextLane, newLane + 2)]

\* mutant: nextLane is not raised above the lane given to an additional parent
ReserveAdditionalNoRaise(st, parent) ==
    IF parent \in DOMAIN st.reservedLanes THEN st
    ELSE LET usedLanes == {st.reservedLanes[h] : h \in DOMAIN st.reservedLanes}
             newLane == LowestFree(usedLanes, 0)
         IN  [reservedLanes |-> MapSet(st.reservedLanes, parent, newLane),
              nextLane |-> st.nextLane]

ReserveAdditional(st, parent) ==
    IF parent \in DOMAIN st.reservedLanes THEN st
    ELSE LET usedLanes == {st.reservedLanes[h] : h \in DOMAIN st.reservedLanes}
             newLane == LowestFree(usedLanes, 0)
         IN  [reservedLanes |-> MapSet(st.reservedLanes, parent, newLane),
              nextLane |-> Max(st.nextLane, newLane + 1)]

\* for (let j = 1; j < commit.parents.length; j++)
RECURSIVE AdditionalParents(_, _, _)
AdditionalParents(st, parents, j) ==
    IF j >= ArrLen(parents) THEN st
    ELSE AdditionalParents(ReserveAdditional(st, parents[j]), parents, j + 1)

\* mutant: the first parent is never given the commit's lane
ReserveFirstNever(reserved, firstParent, assignedLane) == reserved

\* mutant: the last child wins, an existing reservation is overwritten
ReserveFirstOverwrites(reserved, firstParent, assignedLane) ==
    MapSet(reserved, firstParent, assignedLane)

ReserveFirst(reserved, firstParent, assignedLane) ==
    IF firstParent \in DOMAIN reserved THEN reserved
    ELSE MapSet(reserved, firstParent, assignedLane)

ReserveParents(st, parents, assignedLane) ==
    IF ArrLen(parents) > 0
    THEN AdditionalParents(
             [reservedLanes |-> ReserveFirst(st.reservedLanes, parents[0], assignedLane),
              nextLane |-> st.nextLane],
             parents, 1)
    ELSE st

\* mutant: a fresh lane skips one index (nextLane += 2)
LaneStepSkipsLane(st, commit) ==
    LET has == commit.hash \in DOMAIN st.reservedLanes
        assignedLane == IF has THEN st.reservedLanes[commit.hash] ELSE st.nextLane
        afterPick == [reservedLanes |-> IF has THEN MapDelete(st.reservedLanes, commit.hash)
                                        ELSE st.reservedLanes,
                      nextLane |-> IF has THEN st.nextLane ELSE st.nextLane + 2]
        afterParents == ReserveParents(afterPick, commit.parents, assignedLane)
    IN  [commitLanes |-> MapSet(st.commitLanes, commit.hash, assignedLane),
         reservedLanes |-> afterParents.reservedLanes,
         nextLane |-> afterParents.nextLane]

\* mutant: commitLanes.set only on the fresh-lane branch
LaneStepForgetsReserved(st, commit) ==
    LET has == commit.hash \in DOMAIN st.reservedLanes
        assignedLane == IF has THEN st.reservedLanes[commit.hash] ELSE st.nextLane
        afterPick == [reservedLanes |-> IF has THEN MapDelete(st.reservedLanes, commit.hash)
                                        ELSE st.reservedLanes,
                      nextLane |-> IF has THEN st.nextLane ELSE st.nextLane + 1]
        afterParents == ReserveParents(afterPick, commit.parents, assignedLane)
    IN  [commitLanes |-> IF has THEN st.commitLanes
                         ELSE MapSet(st.commitLanes, commit.hash, assignedLane),
         reservedLanes |-> afterParents.reservedLanes,
         nextLane |-> afterParents.nextLane]

\* One iteration of "for (const commit of commits)"
LaneStep(st, commit) ==
    LET has == commit.hash \in DOMAIN st.reservedLanes
        assignedLane == IF has THEN st.reservedLanes[commit.hash] ELSE st.nextLane
        afterPick == [reservedLanes |-> IF has THEN MapDelete(st.reservedLanes, commit.hash)
                                        ELSE st.reservedLanes,
                      nextLane |-> IF has THEN st.nextLane ELSE st.nextLane + 1]
        afterParents == ReserveParents(afterPick, commit.parents, assignedLane)
    IN  [commitLanes |-> MapSet(st.commitLanes, commit.hash, assignedLane),
         reservedLanes |-> afterParents.reservedLanes,
         nextLane |-> afterParents.nextLane]

VisitCommit ==
    /\ pc = "calculateLanes"
    /\ idx < ArrLen(commits)
    /\ LET st == LaneStep([commitLanes |-> commitLanes,
                           reservedLanes |-> reservedLanes,
                           nextLane |-> nextLane], commits[idx])
       IN  /\ commitLanes' = st.commitLanes
           /\ reservedLanes' = st.reservedLanes
           /\ nextLane' = st.nextLane
    /\ idx' = idx + 1
    /\ UNCHANGED <<commits, pc, rows, selVars, callVars, viewVars, hostVars, extensionVars>>

\* ------------------------------------------------------------------------
\* calculateRowGraphData
\* ------------------------------------------------------------------------
\* commits.forEach((c, i) => commitIndex.set(c.hash, i)): the last row wins
CommitIndex(cs) ==
    [h \in {cs[i].hash : i \in DOMAIN cs} |->
        CHOOSE i \in DOMAIN cs :
            /\ cs[i].hash = h
            /\ \A k \in DOMAIN cs : cs[k].hash = h => k <= i]

ChildMapPush(m, parent, i) ==
    MapSet(m, parent, ArrPush(IF parent \in DOMAIN m THEN m[parent] ELSE <<>>, i))

RECURSIVE ChildMapParents(_, _, _, _)
ChildMapParents(m, parents, i, k) ==
    IF k >= ArrLen(parents) THEN m
    ELSE ChildMapParents(ChildMapPush(m, parents[k], i), parents, i, k + 1)

\* Reverse map: commit hash -> indices of commits that have it as a parent
RECURSIVE ChildMap(_, _, _)
ChildMap(m, cs, i) ==
    IF i >= ArrLen(cs) THEN m
    ELSE ChildMap(ChildMapParents(m, cs[i].parents, i, 0), cs, i + 1)

EmptyRow ==
    [passthroughLanes |-> <<>>,
     hasIncoming |-> FALSE,
     hasOutgoing |-> FALSE,
     mergeIncomingFromLanes |-> <<>>,
     mergeOutgoingToLanes |-> <<>>]

\* mutant: any child counts, wherever it is in the list
HasIncomingAnyChild(childMap, hash, i) == hash \in DOMAIN childMap

\* (childMap.get(commit.hash) ?? []).some(j => j < i)
HasIncoming(childMap, hash, i) ==
    /\ hash \in DOMAIN childMap
    /\ \E k \in DOMAIN childMap[hash] : childMap[hash][k] < i

\* mutant: the loop starts at the child's own row
MarkPassthroughFromChild(sets, parentLane, i, j) ==
    [r \in DOMAIN sets |->
        IF i <= r /\ r < j THEN SetAdd(sets[r], parentLane) ELSE sets[r]]

\* for (let r = i + 1; r < j; r++) { passthroughSets[r].add(parentLane); }
MarkPassthrough(sets, parentLane, i, j) ==
    [r \in DOMAIN sets |->
        IF i + 1 <= r /\ r < j THEN SetAdd(sets[r], parentLane) ELSE sets[r]]

\* mutant: the curve is recorded at the child's end only
RecordMergeOutgoingOnly(rs, i, j, lane, parentLane) ==
    IF parentLane # lane
    THEN [rs EXCEPT ![i].mergeOutgoingToLanes = ArrPush(@, parentLane)]
    ELSE rs

\* mutant: the two ends of the curve are recorded the wrong way round
RecordMergeSwapped(rs, i, j, lane, parentLane) ==
    IF parentLane # lane
    THEN [rs EXCEPT ![i].mergeOutgoingToLanes = ArrPush(@, lane),
                    ![j].mergeIncomingFromLanes = ArrPush(@, parentLane)]
    ELSE rs

\* Record bezier endpoints when lanes differ
RecordMerge(rs, i, j, lane, parentLane) ==
    IF parentLane # lane
    THEN [rs EXCEPT ![i].mergeOutgoingToLanes = ArrPush(@, parentLane),
                    ![j].mergeIncomingFromLanes = ArrPush(@, lane)]
    ELSE rs

\* mutant: a parent listed above its child is drawn too (no "j <= i" test)
ParentEdgeAnyRow(st, lanes, commitIndex, i, lane, parent) ==
    IF parent \notin DOMAIN commitIndex
    THEN st
    ELSE LET j == commitIndex[parent]
             parentLane == lanes[parent]
         IN  [rows |-> RecordMerge([st.rows EXCEPT ![i].hasOutgoing = TRUE],
                                   i, j, lane, parentLane),
              passthroughSets |-> MarkPassthrough(st.passthroughSets, parentLane, i, j)]

\* Body of "for (const parent of commit.parents)"
ParentEdge(st, lanes, commitIndex, i, lane, parent) ==
    IF parent \notin DOMAIN commitIndex \/ commitIndex[parent] <= i
    THEN st
    ELSE LET j == commitIndex[parent]
             parentLane == lanes[parent]
         IN  [rows |-> RecordMerge([st.rows EXCEPT ![i].hasOutgoing = TRUE],
                                   i, j, lane, parentLane),
              passthroughSets |-> MarkPassthrough(st.passthroughSets, parentLane, i, j)]

RECURSIVE ParentEdges(_, _, _, _, _, _, _)
ParentEdges(st, lanes, commitIndex, i, lane, parents, k) ==
    IF k >= ArrLen(parents) THEN st
    ELSE ParentEdges(ParentEdge(st, lanes, commitIndex, i, lane, parents[k]),
                     lanes, commitIndex, i, lane, parents, k + 1)

\* for (let i = 0; i < n; i++)
RECURSIVE RowLoop(_, _, _, _, _, _)
RowLoop(st, cs, lanes, commitIndex, childMap, i) ==
    IF i >= ArrLen(cs) THEN st
    ELSE LET commit == cs[i]
             lane == lanes[commit.hash]
             st1 == [st EXCEPT !.rows[i].hasIncoming = HasIncoming(childMap, commit.hash, i)]
         IN  RowLoop(ParentEdges(st1, lanes, commitIndex, i, lane, commit.parents, 0),
                     cs, lanes, commitIndex, childMap, i + 1)

\* Finalise passthrough lanes, excluding each row's own commit lane
Finalise(st, cs, lanes) ==
    [r \in DOMAIN cs |->
        [st.rows[r] EXCEPT !.passthroughLanes =
            FilterNe(st.passthroughSets[r], lanes[cs[r].hash],
                     ArrLen(st.passthroughSets[r]))]]

CalculateRowGraphData(cs, lanes) ==
    IF ArrLen(cs) = 0 THEN <<>>
    ELSE Finalise(RowLoop([rows |-> [r \in DOMAIN cs |-> EmptyRow],
                           passthroughSets |-> [r \in DOMAIN cs |-> <<>>]],
                          cs, lanes, CommitIndex(cs), ChildMap(EmptyMap, cs, 0), 0),
                  cs, lanes)

\* GraphView: rowGraphData = calculateRowGraphData(commits, commitLanes), once
\* calculateLanes has returned
RowGraphData ==
    /\ pc = "calculateLanes"
    /\ idx = ArrLen(commits)
    /\ rows' = CalculateRowGraphData(commits, commitLanes)
    /\ pc' = "rendered"
    /\ UNCHANGED <<commits, idx, commitLanes, reservedLanes, nextLane, selVars,
                   callVars, viewVars, hostVars, extensionVars>>

\* ------------------------------------------------------------------------
\* areCommitsConsecutive
\* ------------------------------------------------------------------------
\* mutant: the number of parents of the newer commit is not tested
RECURSIVE ConsecutiveFromAnyParent(_, _, _)
ConsecutiveFromAnyParent(cs, indices, i) ==
    IF i >= ArrLen(indices) - 1 THEN TRUE
    ELSE LET newer == cs[indices[i]]
             older == cs[indices[i + 1]]
         IN  IF ~ArrIncludes(newer.parents, older.hash)
             THEN FALSE
             ELSE ConsecutiveFromAnyParent(cs, indices, i + 1)

\* mutant: the walk stops one pair early
RECURSIVE ConsecutiveFromShort(_, _, _)
ConsecutiveFromShort(cs, indices, i) ==
    IF i >= ArrLen(indices) - 2 THEN TRUE
    ELSE LET newer == cs[indices[i]]
             older == cs[indices[i + 1]]
         IN  IF ArrLen(newer.parents) # 1 \/ ~ArrIncludes(newer.parents, older.hash)
             THEN FALSE
             ELSE ConsecutiveFromShort(cs, indices, i + 1)

RECURSIVE ConsecutiveFrom(_, _, _)
ConsecutiveFrom(cs, indices, i) ==
    IF i >= ArrLen(indices) - 1 THEN TRUE
    ELSE LET newer == cs[indices[i]]
             older == cs[indices[i + 1]]
         IN  IF ArrLen(newer.parents) # 1 \/ ~ArrIncludes(newer.parents, older.hash)
             THEN FALSE
             ELSE ConsecutiveFrom(cs, indices, i + 1)

AreCommitsConsecutive(cs, indices) == ConsecutiveFrom(cs, indices, 0)

\* strictly ascending arrays of row indices of a list of n commits
RECURSIVE AscendingFrom(_, _)
AscendingFrom(lo, n) ==
    IF lo >= n THEN {<<>>}
    ELSE AscendingFrom(lo + 1, n)
         \cup {[k \in 0..ArrLen(rest) |-> IF k = 0 THEN lo ELSE rest[k - 1]] :
                  rest \in AscendingFrom(lo + 1, n)}

SortedSelections(n) == AscendingFrom(0, n)

CheckConsecutive ==
    /\ pc = "selecting"
    /\ \E sel \in SortedSelections(ArrLen(commits)) :
           /\ sortedIndices' = sel
           /\ consecutive' = AreCommitsConsecutive(commits, sel)
    /\ pc' = "checked"
    /\ UNCHANGED <<commits, laneVars, callVars, viewVars, hostVars, extensionVars>>

\* "null", and a value that is not null, of a "T | null" state or slot
Null == <<>>

Some(x) == <<x>>

\* no call of calculateLanes has returned yet
InitCall ==
    /\ call = "first"
    /\ memo = [commits |-> <<>>, commitLanes |-> EmptyMap, rows |-> <<>>]

\* GraphView: the useState initial values; nothing posted, no command run
InitView ==
    /\ selectedIndices = {}
    /\ rangeStartIndex = Null
    /\ singleMenu = Null
    /\ rangeMenu = Null
    /\ editingHash = Null
    /\ posted = Null
    /\ gitCommand = Null

\* extension host: no operation started, no view filled yet
InitHost ==
    /\ issued = 0
    /\ running = {}
    /\ scriptFiles = 0
    /\ started = 0
    /\ inflight = {}
    /\ shown = 0

\* a repository without commits or branches; new commits are numbered from
\* beyond the commits a view can show
EmptyRepo == [history |-> <<>>, staged |-> FALSE, sequencer |-> "", orig |-> <<>>,
              fresh |-> MaxHistory + 1, branches |-> {}]

\* '' (no hash) and the locals of a handler that has none
NoHash == 0

NoFrame == [commitHash |-> NoHash, newMessage |-> "", hashes |-> <<>>,
            parentHash |-> NoHash, headHash |-> NoHash, branchName |-> ""]

IdleHandler ==
    /\ handler = "none"
    /\ step = "idle"
    /\ frame = NoFrame
    /\ prompt = Null
    /\ answers = <<>>
    /\ child = Null
    /\ execs = <<>>
    /\ onRefreshCalls = 0
    /\ branchRefreshCalls = 0

\* no panel created
InitPanel ==
    /\ currentPanel = Null
    /\ panels = <<>>

\* no panel, an empty repository, no command invoked
InitExtension ==
    /\ InitPanel
    /\ workspaceFolder = FALSE
    /\ repo = EmptyRepo
    /\ before = EmptyRepo
    /\ IdleHandler

\* commits is any list of n commits with at most e parent references in all
RECURSIVE DrawCommits(_, _, _)
DrawCommits(acc, n, e) ==
    IF ArrLen(acc) = n
    THEN Acyclic(acc) /\ commits = acc
    ELSE \E k \in 0..Min(MaxParents, e) :
             \E ps \in ParentChoices(ArrLen(acc), n, k) :
                 DrawCommits(ArrPush(acc, [hash |-> HashNames[ArrLen(acc) + 1],
                                          parents |-> ps]), n, e - k)

Init ==
    /\ \E n \in 0..MaxCommits : DrawCommits(<<>>, n, MaxEdges)
    /\ pc = "calculateLanes"
    /\ idx = 0
    /\ commitLanes = EmptyMap
    /\ reservedLanes = EmptyMap
    /\ nextLane = 0
    /\ rows = <<>>
    /\ sortedIndices = <<>>
    /\ consecutive = FALSE
    /\ InitCall /\ InitView /\ InitHost /\ InitExtension

Next == VisitCommit \/ RowGraphData

Spec == Init /\ [][Next]_vars

\* areCommitsConsecutive called on any ascending selection of rows
InitConsecutive ==
    /\ \E n \in 0..MaxCommits : DrawCommits(<<>>, n, MaxEdges)
    /\ pc = "selecting"
    /\ idx = 0
    /\ commitLanes = EmptyMap
    /\ reservedLanes = EmptyMap
    /\ nextLane = 0
    /\ rows = <<>>
    /\ sortedIndices = <<>>
    /\ consecutive = FALSE
    /\ InitCall /\ InitView /\ InitHost /\ InitExtension

NextConsecutive == CheckConsecutive

SpecConsecutive == InitConsecutive /\ [][NextConsecutive]_vars

\* ------------------------------------------------------------------------
\* Repeated calls of calculateLanes and calculateRowGraphData
\* ------------------------------------------------------------------------
\* Array.prototype.reverse on a copy of the array
Reverse(a) == [k \in DOMAIN a |-> a[ArrLen(a) - 1 - k]]

\* Array.prototype.slice(1)
DropFirst(a) == [k \in 0..(ArrLen(a) - 2) |-> a[k + 1]]

\* inputs of a call made between two calls on the same list: they share
\* hashes with that list
OtherInputs(cs) == {Reverse(cs), DropFirst(cs)} \ {cs}

\* mutant: reservedLanes is a module-level map that outlives the call
EnterCalculateLanesKeepsReserved(prev) ==
    [commitLanes |-> EmptyMap, reservedLanes |-> prev.reservedLanes, nextLane |-> 0]

\* const commitLanes = new Map(); const reservedLanes = new Map(); let nextLane = 0;
\* prev is what the previous call left behind
EnterCalculateLanes(prev) ==
    [commitLanes |-> EmptyMap, reservedLanes |-> EmptyMap, nextLane |-> 0]

\* the entry of a call of calculateLanes on cs, after an earlier call returned
EnterCall(cs) ==
    LET st == EnterCalculateLanes([commitLanes |-> commitLanes,
                                   reservedLanes |-> reservedLanes,
                                   nextLane |-> nextLane])
    IN  /\ commits' = cs
        /\ commitLanes' = st.commitLanes
        /\ reservedLanes' = st.reservedLanes
        /\ nextLane' = st.nextLane
        /\ idx' = 0
        /\ rows' = <<>>
        /\ pc' = "calculateLanes"

Returned == [commits |-> commits, commitLanes |-> commitLanes, rows |-> rows]

\* a call on another list, after the first call
CallOther ==
    /\ pc = "rendered"
    /\ call = "first"
    /\ \E other \in OtherInputs(commits) : EnterCall(other)
    /\ memo' = Returned
    /\ call' = "other"
    /\ UNCHANGED <<selVars, viewVars, hostVars, extensionVars>>

\* a second call on the list of the first call
CallAgain ==
    /\ pc = "rendered"
    /\ call \in {"first", "other"}
    /\ EnterCall(IF call = "first" THEN commits ELSE memo.commits)
    /\ memo' = IF call = "first" THEN Returned ELSE memo
    /\ call' = "again"
    /\ UNCHANGED <<selVars, viewVars, hostVars, extensionVars>>

InitRepeat ==
    /\ \E n \in 0..(MaxCommits - 1) : DrawCommits(<<>>, n, MaxEdges - 1)
    /\ pc = "calculateLanes"
    /\ idx = 0
    /\ commitLanes = EmptyMap
    /\ reservedLanes = EmptyMap
    /\ nextLane = 0
    /\ rows = <<>>
    /\ sortedIndices = <<>>
    /\ consecutive = FALSE
    /\ InitCall /\ InitView /\ InitHost /\ InitExtension

NextRepeat == VisitCommit \/ RowGraphData \/ CallOther \/ CallAgain

SpecRepeat == InitRepeat /\ [][NextRepeat]_vars

\* ------------------------------------------------------------------------
\* GraphView: selection, context menus, messages to the extension host
\* ------------------------------------------------------------------------
restVars == <<pc, laneVars, selVars, callVars, hostVars, extensionVars>>

\* Array.from(selectedIndices).sort((a, b) => a - b), as a sequence
RECURSIVE SortedSeq(_)
SortedSeq(S) ==
    IF S = {} THEN <<>>
    ELSE LET m == CHOOSE x \in S : \A y \in S : x <= y
         IN  <<m>> \o SortedSeq(S \ {m})

SortAscending(S) == Arr(SortedSeq(S))

\* mutant: "if (shiftKey && rangeStartIndex)": an anchor on row 0 counts as none
RowClickTruthyAnchor(anchor, index, shiftKey) ==
    IF shiftKey /\ anchor # Null /\ anchor # Some(0)
    THEN [selectedIndices |-> Min(anchor[1], index)..Max(anchor[1], index),
          rangeStartIndex |-> anchor]
    ELSE [selectedIndices |-> {index}, rangeStartIndex |-> Some(index)]

\* handleRowClick: the selection and the anchor after a click on row index
RowClick(anchor, index, shiftKey) ==
    IF shiftKey /\ anchor # Null
    THEN [selectedIndices |-> Min(anchor[1], index)..Max(anchor[1], index),
          rangeStartIndex |-> anchor]
    ELSE [selectedIndices |-> {index}, rangeStartIndex |-> Some(index)]

\* onClick of row index: handleRowClick(index, e.shiftKey). The inline editor
\* has the focus while it is shown (CommitRow's useEffect), so a click
\* elsewhere first blurs it: onBlur={onEditCancel}
HandleRowClickOn(index, shiftKey) ==
    LET next == RowClick(rangeStartIndex, index, shiftKey)
    IN  /\ selectedIndices' = next.selectedIndices
        /\ rangeStartIndex' = next.rangeStartIndex
        /\ singleMenu' = Null
        /\ rangeMenu' = Null
        /\ editingHash' = Null
        /\ UNCHANGED <<commits, posted, gitCommand, restVars>>

HandleRowClick ==
    \E index \in DOMAIN commits, shiftKey \in BOOLEAN : HandleRowClickOn(index, shiftKey)

\* handleContextMenu: selectedIndices.size > 1 && selectedIndices.has(index)
OpensRangeMenu(sel, index) == Cardinality(sel) > 1 /\ index \in sel

\* mutant: the indices are stored last row first
NewRangeMenuDescending(cs, sel) ==
    LET sorted == Reverse(SortAscending(sel))
    IN  [sortedIndices |-> sorted, consecutive |-> AreCommitsConsecutive(cs, sorted)]

\* the RangeMenu object built by handleContextMenu (page coordinates left out)
NewRangeMenu(cs, sel) ==
    LET sorted == SortAscending(sel)
    IN  [sortedIndices |-> sorted, consecutive |-> AreCommitsConsecutive(cs, sorted)]

\* onContextMenu of row index: handleContextMenu(e, index)
HandleContextMenuOn(index) ==
    /\ IF OpensRangeMenu(selectedIndices, index)
       THEN /\ rangeMenu' = Some(NewRangeMenu(commits, selectedIndices))
            /\ singleMenu' = Null
            /\ UNCHANGED <<selectedIndices, rangeStartIndex>>
       ELSE /\ rangeStartIndex' = Some(index)
            /\ selectedIndices' = {index}
            /\ singleMenu' = Some([hash |-> commits[index].hash, index |-> index])
            /\ rangeMenu' = Null
    /\ editingHash' = Null
    /\ UNCHANGED <<commits, posted, gitCommand, restVars>>

HandleContextMenu == \E index \in DOMAIN commits : HandleContextMenuOn(index)

\* <div onClick={closeMenus}>: a click outside the rows and the menus
CloseMenus ==
    /\ singleMenu' = Null
    /\ rangeMenu' = Null
    /\ editingHash' = Null
    /\ UNCHANGED <<commits, selectedIndices, rangeStartIndex, posted, gitCommand,
                   restVars>>

\* the items of the single-commit menu
SingleMenuItems ==
    {"showCommitDetails", "copyHash", "cherryPick", "revertCommit",
     "editCommitMessage", "resetToCommit"}

HandleSingleAction ==
    /\ singleMenu # Null
    /\ \E action \in SingleMenuItems :
           /\ IF action = "editCommitMessage"
              THEN /\ editingHash' = Some(singleMenu[1].hash)
                   /\ posted' = posted
              ELSE /\ posted' = Some([command |-> action,
                                        commitHash |-> singleMenu[1].hash])
                   /\ editingHash' = editingHash
    /\ singleMenu' = Null
    /\ rangeMenu' = Null
    /\ UNCHANGED <<commits, selectedIndices, rangeStartIndex, gitCommand, restVars>>

\* mutant: 'Squash Commits' is rendered whatever rangeMenu.consecutive is
RangeMenuItemsAlwaysSquash(menu) == {"squashCommits", "cherryPickRange"}

\* the items of the range menu: {rangeMenu.consecutive && ...} and the
\* unconditional 'Cherry-pick Commits'
RangeMenuItems(menu) ==
    (IF menu.consecutive THEN {"squashCommits"} ELSE {}) \cup {"cherryPickRange"}

\* sortedIndices.map(i => commits[i].hash)
RangeHashes(cs, sorted) == [k \in DOMAIN sorted |-> cs[sorted[k]].hash]

\* commits[sortedIndices[sortedIndices.length - 1]].parents[0]; undefined is ""
RangeParentHash(cs, sorted) ==
    LET last == cs[sorted[ArrLen(sorted) - 1]]
    IN  IF ArrLen(last.parents) > 0 THEN last.parents[0] ELSE ""

HandleRangeAction ==
    /\ rangeMenu # Null
    /\ \E action \in RangeMenuItems(rangeMenu[1]) :
           posted' = Some([command |-> action,
                           hashes |-> RangeHashes(commits, rangeMenu[1].sortedIndices),
                           parentHash |-> RangeParentHash(commits,
                                                          rangeMenu[1].sortedIndices)])
    /\ singleMenu' = Null
    /\ rangeMenu' = Null
    /\ UNCHANGED <<commits, selectedIndices, rangeStartIndex, editingHash, gitCommand,
                   restVars>>

\* handleEditConfirm / onEditCancel: the inline editor closes; a changed,
\* non-empty message is sent to the host
HandleEditEnd ==
    /\ editingHash # Null
    /\ \E confirmed \in BOOLEAN :
           IF confirmed
           THEN posted' = Some([command |-> "editCommitMessage",
                                commitHash |-> editingHash[1]])
           ELSE posted' = posted
    /\ editingHash' = Null
    /\ UNCHANGED <<commits, selectedIndices, rangeStartIndex, singleMenu, rangeMenu,
                   gitCommand, restVars>>

\* 0-based array to sequence
RECURSIVE SeqFrom(_, _)
SeqFrom(a, k) == IF k >= ArrLen(a) THEN <<>> ELSE <<a[k]>> \o SeqFrom(a, k + 1)

\* mutant: the hashes are passed to git in the order received
CherryPickCommandAsSent(hashes) == <<"git", "cherry-pick">> \o SeqFrom(hashes, 0)

\* cherryPickRange: `git cherry-pick ${[...hashes].reverse().join(' ')}`, word by word
CherryPickCommand(hashes) == <<"git", "cherry-pick">> \o SeqFrom(Reverse(hashes), 0)

\* panel.webview.onDidReceiveMessage: a cherryPickRange message is given to
\* GitOperations.cherryPickRange(message.hashes), which hands the command
\* line to cp.exec
ReceiveMessage ==
    /\ posted # Null
    /\ gitCommand' = IF posted[1].command = "cherryPickRange"
                     THEN Some(CherryPickCommand(posted[1].hashes))
                     ELSE gitCommand
    /\ posted' = Null
    /\ UNCHANGED <<commits, selectedIndices, rangeStartIndex, singleMenu, rangeMenu,
                   editingHash, restVars>>

\* the parents of row r of the list shown: none, the commit of the next row,
\* a commit outside the list, or both (a merge)
RowParents(r, n) ==
    {<<>>, Arr(<<UnknownHash>>)}
    \cup (IF r + 1 < n
          THEN {Arr(<<HashNames[r + 2]>>), Arr(<<HashNames[r + 2], UnknownHash>>)}
          ELSE {})

\* commits is any list of n rows with such parents
RECURSIVE DrawRows(_, _)
DrawRows(acc, n) ==
    IF ArrLen(acc) = n
    THEN commits = acc
    ELSE \E ps \in RowParents(ArrLen(acc), n) :
             DrawRows(ArrPush(acc, [hash |-> HashNames[ArrLen(acc) + 1],
                                    parents |-> ps]), n)

\* GraphView returns the "No commits found" page for an empty list
InitGraphView ==
    /\ \E n \in 1..(MaxCommits - 1) : DrawRows(<<>>, n)
    /\ pc = "view"
    /\ idx = 0
    /\ commitLanes = EmptyMap
    /\ reservedLanes = EmptyMap
    /\ nextLane = 0
    /\ rows = <<>>
    /\ sortedIndices = <<>>
    /\ consecutive = FALSE
    /\ InitCall /\ InitView /\ InitHost /\ InitExtension

NextGraphView ==
    \/ HandleRowClick
    \/ HandleContextMenu
    \/ CloseMenus
    \/ HandleSingleAction
    \/ HandleRangeAction
    \/ HandleEditEnd

SpecGraphView == InitGraphView /\ [][NextGraphView]_vars

\* the range menu is open over rows lo..hi, selected by a click on one end
\* and a shift-click on the other
InitCherryPickRange ==
    /\ \E n \in 2..(MaxCommits - 1) : DrawRows(<<>>, n)
    /\ pc = "view"
    /\ idx = 0
    /\ commitLanes = EmptyMap
    /\ reservedLanes = EmptyMap
    /\ nextLane = 0
    /\ rows = <<>>
    /\ sortedIndices = <<>>
    /\ consecutive = FALSE
    /\ InitCall /\ InitHost /\ InitExtension
    /\ \E a, j \in DOMAIN commits :
           /\ a # j
           /\ selectedIndices = RowClick(Some(a), j, TRUE).selectedIndices
           /\ rangeStartIndex = Some(a)
           /\ rangeMenu = Some(NewRangeMenu(commits, selectedIndices))
    /\ singleMenu = Null
    /\ editingHash = Null
    /\ posted = Null
    /\ gitCommand = Null

NextCherryPickRange == HandleRangeAction \/ ReceiveMessage

SpecCherryPickRange == InitCherryPickRange /\ [][NextCherryPickRange]_vars


\* ------------------------------------------------------------------------
\* Extension host: mutating operations of GitOperations, refreshes of a view
\* ------------------------------------------------------------------------
graphVars == <<commits, pc, laneVars, selVars, callVars, viewVars>>

\* the operations that change history, by the git command they hand to
\* cp.exec; scripts: the command is "git rebase -i" run with the two editor
\* scripts written to os.tmpdir() under fixed names
Mutations ==
    {[kind |-> "editCommitMessage", git |-> "commit --amend", scripts |-> FALSE],
     [kind |-> "editCommitMessage", git |-> "rebase -i", scripts |-> TRUE],
     [kind |-> "cherryPickCommit", git |-> "cherry-pick", scripts |-> FALSE],
     [kind |-> "revertCommit", git |-> "revert", scripts |-> FALSE],
     [kind |-> "resetToCommit", git |-> "reset", scripts |-> FALSE],
     [kind |-> "squashCommits", git |-> "reset --soft", scripts |-> FALSE],
     [kind |-> "squashCommits", git |-> "rebase -i", scripts |-> TRUE],
     [kind |-> "cherryPickRange", git |-> "cherry-pick", scripts |-> FALSE]}

Operation(id, m) == [id |-> id, kind |-> m.kind, git |-> m.git, scripts |-> m.scripts]

\* cp.exec('git rebase --abort', { cwd }, () => {}) of a failed rebase
RebaseAbort(id) == [id |-> id, kind |-> "rebaseAbort", git |-> "rebase --abort",
                    scripts |-> FALSE]

\* an operation reaches its mutating git command: the prompts are answered,
\* fs.writeFileSync has written the two scripts (rebase), cp.exec has started
\* git. Nothing in GitOperations looks at the operations already running.
StartOperation ==
    /\ issued < MaxOperations
    /\ \E m \in Mutations :
           /\ running' = running \cup {Operation(issued + 1, m)}
           /\ scriptFiles' = IF m.scripts THEN issued + 1 ELSE scriptFiles
    /\ issued' = issued + 1
    /\ UNCHANGED <<started, inflight, shown, graphVars, extensionVars>>

\* updateWebview up to its await: the git command that reads the view's data
\* is running
BeginRefresh ==
    /\ started' = started + 1
    /\ inflight' = inflight \cup {started + 1}

\* the callback of cp.exec: the scripts are unlinked (rebase); on an error a
\* rebase is aborted; on success onRefresh() is called
FinishOperation ==
    \E o \in running, ok \in BOOLEAN :
        /\ scriptFiles' = IF o.scripts THEN 0 ELSE scriptFiles
        /\ IF o.kind = "rebaseAbort"
           THEN /\ running' = running \ {o}
                /\ UNCHANGED <<started, inflight>>
           ELSE IF ok
           THEN /\ started < MaxRefreshes
                /\ running' = running \ {o}
                /\ BeginRefresh
           ELSE /\ running' = (running \ {o})
                                \cup (IF o.scripts THEN {RebaseAbort(o.id)} ELSE {})
                /\ UNCHANGED <<started, inflight>>
        /\ UNCHANGED <<issued, shown, graphVars, extensionVars>>

\* the file watcher on .git/** fires, or the page's Refresh button is used:
\* refresh() calls updateWebview without waiting for an earlier call
WatcherRefresh ==
    /\ started < MaxRefreshes
    /\ BeginRefresh
    /\ UNCHANGED <<issued, running, scriptFiles, shown, graphVars, extensionVars>>

\* the git command of one updateWebview call returns, in whatever order the
\* processes end: webview.html = ... replaces the page as a whole
CompleteRefresh ==
    \E r \in inflight :
        /\ shown' = r
        /\ inflight' = inflight \ {r}
        /\ UNCHANGED <<issued, running, scriptFiles, started, graphVars, extensionVars>>

InitProvider ==
    /\ commits = <<>>
    /\ pc = "host"
    /\ idx = 0
    /\ commitLanes = EmptyMap
    /\ reservedLanes = EmptyMap
    /\ nextLane = 0
    /\ rows = <<>>
    /\ sortedIndices = <<>>
    /\ consecutive = FALSE
    /\ InitCall /\ InitView /\ InitHost /\ InitExtension

NextProvider == StartOperation \/ FinishOperation \/ WatcherRefresh \/ CompleteRefresh

SpecProvider == InitProvider /\ [][NextProvider]_vars

\* ------------------------------------------------------------------------
\* Extension host: the "Git Graph" editor panel of the showGraph command
\* ------------------------------------------------------------------------
\* vscode.window.activeTextEditor ? activeTextEditor.viewColumn : undefined;
\* 0 stands for undefined
ActiveColumns == 0..MaxColumns

\* the test of createOrShow left out: a panel is created every time
ShowsExistingNever(current) == FALSE

\* if (GitGraphViewProvider.currentPanel)
ShowsExisting(current) == current # Null

\* the panels that are not disposed
LivePanels == {p \in DOMAIN panels : ~panels[p].disposed}

\* currentPanel.reveal(column): the panel moves to the column when one is
\* given; on a disposed panel reveal throws and nothing changes
Reveal(ps, p, column) ==
    IF ps[p].disposed \/ column = 0
    THEN ps
    ELSE [ps EXCEPT ![p].column = column]

\* createWebviewPanel(viewType, 'Git Graph', column || vscode.ViewColumn.One, ...)
CreateWebviewPanel(column) ==
    [disposed |-> FALSE, column |-> IF column = 0 THEN 1 ELSE column]

\* a dispose listener that leaves the static reference as it is
OnDidDisposeKeeps(current) == current

\* the callback given to panel.onDidDispose: what currentPanel becomes
OnDidDispose(current) == Null

\* GitGraphViewProvider.createOrShow, run by the git-lean.showGraph command
\* while the active editor is in the given column
CreateOrShowOn(column) ==
    /\ IF ShowsExisting(currentPanel)
       THEN /\ panels' = Reveal(panels, currentPanel[1], column)
            /\ UNCHANGED currentPanel
       ELSE /\ Len(panels) < MaxPanels
            /\ panels' = Append(panels, CreateWebviewPanel(column))
            /\ currentPanel' = Some(Len(panels) + 1)
    /\ UNCHANGED <<graphVars, hostVars, commandVars>>

CreateOrShow == \E column \in ActiveColumns : CreateOrShowOn(column)

\* the user closes a panel: the panel is disposed and its onDidDispose
\* listener runs
DisposePanel ==
    \E p \in LivePanels :
        /\ panels' = [panels EXCEPT ![p].disposed = TRUE]
        /\ currentPanel' = OnDidDispose(currentPanel)
        /\ UNCHANGED <<graphVars, hostVars, commandVars>>

NextPanel == CreateOrShow \/ DisposePanel

SpecPanel == InitProvider /\ [][NextPanel]_vars

\* ------------------------------------------------------------------------
\* Extension host: the command handlers that run git, one invocation
\* followed from its first line to its last callback. Commits are numbered:
\* on a branch of n commits the HEAD commit is n and the root commit is 1;
\* a view that is not up to date may name commits the branch no longer has.
\* ------------------------------------------------------------------------
Hashes == 1..MaxHistory

BranchNames == {"done", "wip", "gone"}

\* the branches whose commits are all on the checked-out branch
FullyMerged == {"done"}

\* the value of a dismissed prompt
Undefined == "undefined"

OnBranch(r, h) == \E i \in DOMAIN r.history : r.history[i] = h

PositionOf(r, h) == CHOOSE i \in DOMAIN r.history : r.history[i] = h

\* the commits newer than h, newest first, and the history that ends in h
Above(r, h) == SubSeq(r.history, 1, PositionOf(r, h) - 1)

UpTo(r, h) == SubSeq(r.history, PositionOf(r, h), Len(r.history))

\* h~1: the first parent of h, no commit when h is the root or is unknown
FirstParent(r, h) ==
    IF OnBranch(r, h) /\ PositionOf(r, h) < Len(r.history)
    THEN r.history[PositionOf(r, h) + 1]
    ELSE NoHash

\* the branch after k commits that did not exist were put on top of the
\* history base
Rewritten(r, base, k) ==
    [r EXCEPT !.history = [i \in 1..k |-> r.fresh + k - i] \o base, !.fresh = @ + k]

\* ---- git command lines --------------------------------------------------
Command(git, flag, revs) ==
    [git |-> git, flag |-> flag, revs |-> revs, script |-> "", targets |-> <<>>,
     name |-> ""]

\* 'git rev-parse HEAD'
RevParseHead == Command("rev-parse", "HEAD", <<>>)

\* `git commit --amend -m "${escaped}"` and `git commit -m "${escaped}"`
CommitAmend == Command("commit", "--amend -m", <<>>)

Commit == Command("commit", "-m", <<>>)

\* `git rebase -i ${commitHash}~1` with the sequence editor that turns the
\* pick line of commitHash into reword
RebaseReword(commitHash) ==
    [Command("rebase", "-i ~1", <<commitHash>>) EXCEPT
        !.script = "reword", !.targets = Arr(<<commitHash>>)]

\* `git rebase -i ${parentHash}` with the sequence editor that turns the pick
\* lines of squashableHashes = hashes.slice(0, -1) into squash
RebaseSquash(parentHash, hashes) ==
    [Command("rebase", "-i", <<parentHash>>) EXCEPT
        !.script = "squash",
        !.targets = [k \in 0..(ArrLen(hashes) - 2) |-> hashes[k]]]

\* 'git rebase --abort'
GitRebaseAbort == Command("rebase", "--abort", <<>>)

\* `git cherry-pick ${commitHash}`
CherryPick(commitHash) == Command("cherry-pick", "", <<commitHash>>)

\* `git cherry-pick ${ordered}`, ordered = [...hashes].reverse().join(' ')
CherryPickOrdered(hashes) == Command("cherry-pick", "", SeqFrom(Reverse(hashes), 0))

\* `git revert ${commitHash} --no-edit`
Revert(commitHash) == Command("revert", "--no-edit", <<commitHash>>)

\* showQuickPick items of resetToCommit: label and value
ResetTypes ==
    {[label |-> "Soft", value |-> "--soft"],
     [label |-> "Mixed", value |-> "--mixed"],
     [label |-> "Hard", value |-> "--hard"]}

\* resetType.value of the item picked
ResetValue(label) == (CHOOSE t \in ResetTypes : t.label = label).value

\* `git reset ${resetType.value} ${commitHash}`
Reset(value, commitHash) == Command("reset", value, <<commitHash>>)

\* ['branch', '-d', branchName] and ['branch', '-D', branchName]
BranchDelete(flag, branchName) == [Command("branch", flag, <<>>) EXCEPT !.name = branchName]

\* ['push', '--force-with-lease']
PushForceWithLease == Command("push", "--force-with-lease", <<>>)

\* ---- what a git process can do to the repository -------------------------
\* the result given to the callback of cp.exec / cp.execFile; stderr is the
\* set of phrases its text contains
Succeeds(r, stdout) == [error |-> FALSE, stderr |-> {}, stdout |-> stdout, repo |-> r]

Fails(r, phrase) == [error |-> TRUE, stderr |-> {phrase}, stdout |-> NoHash, repo |-> r]

\* the commit the rebase is onto
Upstream(r, c) ==
    IF c.script = "reword" THEN FirstParent(r, c.revs[1]) ELSE c.revs[1]

\* the todo lines the sequence editor leaves as pick or reword
Kept(r, c) ==
    LET todo == Above(r, Upstream(r, c))
    IN  IF c.script = "squash"
        THEN SelectSeq(todo, LAMBDA h : ~ArrIncludes(c.targets, h))
        ELSE todo

\* git rebase -i: it can stop with the rebase left in progress (a conflict,
\* a failing editor or hook); it is refused when the upstream is unknown, an operation is in
\* progress or the index has changes; a todo list without a squash line is
\* left as it is; a squash line that comes first cannot be applied
RunRebase(r, c) ==
    LET u == Upstream(r, c)
    IN  IF ~OnBranch(r, u) \/ r.sequencer # "" \/ r.staged
        THEN {}
        ELSE LET todo == Above(r, u)
                 base == UpTo(r, u)
                 stopped == Fails([r EXCEPT !.orig = r.history, !.history = base,
                                            !.sequencer = "rebase"], "could not apply")
             IN  IF c.script = "squash" /\ Kept(r, c) = todo
                 THEN {Succeeds(r, NoHash)}
                 ELSE IF c.script = "squash" /\ ArrIncludes(c.targets, todo[Len(todo)])
                 THEN {stopped}
                 ELSE {Succeeds(Rewritten(r, base, Len(Kept(r, c))), NoHash), stopped}

\* every outcome of the process running command c in repository r; every
\* command but rev-parse can also fail without having done anything
Run(r, c) ==
    IF c.git = "rev-parse"
    THEN IF r.history = <<>>
         THEN {Fails(r, "unknown revision")}
         ELSE {Succeeds(r, r.history[1])}
    ELSE {Fails(r, "fatal")} \cup
        CASE c.git = "commit" /\ c.flag = "--amend -m" ->
                 IF r.history = <<>> \/ r.sequencer # ""
                 THEN {}
                 ELSE {Succeeds([Rewritten(r, Tail(r.history), 1) EXCEPT !.staged = FALSE],
                                NoHash)}
          [] c.git = "commit" /\ c.flag = "-m" ->
                 IF ~r.staged \/ r.sequencer # ""
                 THEN {}
                 ELSE {Succeeds([Rewritten(r, r.history, 1) EXCEPT !.staged = FALSE],
                                NoHash)}
          [] c.git = "reset" ->
                 IF ~OnBranch(r, c.revs[1])
                 THEN {}
                 ELSE {Succeeds([r EXCEPT
                           !.history = UpTo(r, c.revs[1]),
                           !.staged = IF c.flag = "--soft"
                                      THEN r.staged \/ c.revs[1] # r.history[1]
                                      ELSE FALSE], NoHash)}
          [] c.git = "rebase" /\ c.flag = "--abort" ->
                 IF r.sequencer = "rebase"
                 THEN {Succeeds([r EXCEPT !.history = r.orig, !.orig = <<>>,
                                          !.sequencer = ""], NoHash)}
                 ELSE {}
          [] c.git = "rebase" /\ c.flag # "--abort" -> RunRebase(r, c)
          [] c.git \in {"cherry-pick", "revert"} ->
                 IF (\E i \in DOMAIN c.revs : ~OnBranch(r, c.revs[i])) \/ r.sequencer # ""
                 THEN {}
                 ELSE {Succeeds(Rewritten(r, r.history, Len(c.revs)), NoHash)}
                      \cup {Fails([Rewritten(r, r.history, k) EXCEPT !.sequencer = c.git],
                                  "could not apply") : k \in 0..(Len(c.revs) - 1)}
          [] c.git = "branch" ->
                 IF c.name \notin r.branches
                 THEN {Fails(r, "not found")}
                 ELSE IF c.flag = "-d" /\ c.name \notin FullyMerged
                 THEN {Fails(r, "not fully merged")}
                 ELSE {Succeeds([r EXCEPT !.branches = @ \ {c.name}], NoHash)}
          [] c.git = "push" -> {Succeeds(r, NoHash), Fails(r, "stale info")}

\* ---- the handlers ---------------------------------------------------------
otherVars == <<graphVars, hostVars, panelVars, workspaceFolder, before>>

\* return; (also the end of a callback)
Returns ==
    /\ step' = "returned"
    /\ prompt' = Null
    /\ child' = Null

\* cp.exec(c, callback) / cp.execFile(...): the handler goes on in callback s
Awaits(c, s) ==
    /\ step' = s
    /\ prompt' = Null
    /\ child' = Some(c)

\* await showWarningMessage / showQuickPick / showInputBox with these items
Asks(items, s) ==
    /\ step' = s
    /\ prompt' = Some(items)
    /\ child' = Null

\* the process called back with result res
Exited(res) ==
    /\ execs' = Append(execs, [command |-> child[1], error |-> res.error,
                               stderr |-> res.stderr])
    /\ repo' = res.repo

\* a callback that refreshes whatever the result
RefreshAfterAlways(error, calls) == calls + 1

\* if (error) { showErrorMessage(...); return; } ...; this.onRefresh();
RefreshAfter(error, calls) == IF error THEN calls ELSE calls + 1

\* a test of the answer that lets every answer through
ConfirmedAlways(answer, item) == TRUE

\* if (confirm !== 'Yes') { return; }
Confirmed(answer, item) == answer = item

\* the callback of the last git command of a handler: error message and
\* return, or information message and onRefresh()
CallbackRefreshes(name, s) ==
    /\ handler = name
    /\ step = s
    /\ \E res \in Run(repo, child[1]) :
           /\ Exited(res)
           /\ onRefreshCalls' = RefreshAfter(res.error, onRefreshCalls)
    /\ Returns
    /\ UNCHANGED <<handler, frame, answers, branchRefreshCalls, otherVars>>

\* the callback of git rebase -i: on an error 'git rebase --abort' is started
\* with an empty callback and the handler returns
CallbackRebase(name) ==
    /\ handler = name
    /\ step = "rebase"
    /\ \E res \in Run(repo, child[1]) :
           /\ Exited(res)
           /\ onRefreshCalls' = RefreshAfter(res.error, onRefreshCalls)
           /\ IF res.error THEN Awaits(GitRebaseAbort, "abort") ELSE Returns
    /\ UNCHANGED <<handler, frame, answers, branchRefreshCalls, otherVars>>

\* await new Promise(resolve => cp.exec('git rev-parse HEAD', ...,
\*     (err, stdout) => resolve(err ? '' : stdout.trim())))
HeadHash(res) == IF res.error THEN NoHash ELSE res.stdout

\* () => {}: the callback of 'git rebase --abort'
RebaseAbortExit ==
    /\ step = "abort"
    /\ \E res \in Run(repo, child[1]) : Exited(res)
    /\ Returns
    /\ UNCHANGED <<handler, frame, answers, onRefreshCalls, branchRefreshCalls,
                   otherVars>>

\* editCommitMessage(commitHash, newMessage) up to its await
EditCommitMessage ==
    \E commitHash \in Hashes, newMessage \in {"", "reworded"} :
        /\ handler = "none"
        /\ handler' = "editCommitMessage"
        /\ frame' = [NoFrame EXCEPT !.commitHash = commitHash,
                                    !.newMessage = newMessage]
        /\ IF newMessage = "" \/ ~workspaceFolder
           THEN Returns
           ELSE Awaits(RevParseHead, "headHash")
        /\ UNCHANGED <<repo, answers, execs, onRefreshCalls, branchRefreshCalls,
                       otherVars>>

\* editCommitMessage from headHash on: amend the HEAD commit, or write the
\* two editor scripts and rebase
EditCommitMessageHead ==
    /\ handler = "editCommitMessage"
    /\ step = "headHash"
    /\ \E res \in Run(repo, child[1]) :
           /\ Exited(res)
           /\ frame' = [frame EXCEPT !.headHash = HeadHash(res)]
           /\ IF frame.commitHash = HeadHash(res)
              THEN Awaits(CommitAmend, "amend")
              ELSE Awaits(RebaseReword(frame.commitHash), "rebase")
    /\ UNCHANGED <<handler, answers, onRefreshCalls, branchRefreshCalls, otherVars>>

EditCommitMessageAmended == CallbackRefreshes("editCommitMessage", "amend")

EditCommitMessageRebased == CallbackRebase("editCommitMessage")

\* cherryPickCommit(commitHash)
CherryPickCommit ==
    \E commitHash \in Hashes :
        /\ handler = "none"
        /\ handler' = "cherryPickCommit"
        /\ frame' = [NoFrame EXCEPT !.commitHash = commitHash]
        /\ IF ~workspaceFolder
           THEN Returns
           ELSE Awaits(CherryPick(commitHash), "cherry-pick")
        /\ UNCHANGED <<repo, answers, execs, onRefreshCalls, branchRefreshCalls,
                       otherVars>>

CherryPickCommitExit == CallbackRefreshes("cherryPickCommit", "cherry-pick")

\* revertCommit(commitHash) up to its await
RevertCommit ==
    \E commitHash \in Hashes :
        /\ handler = "none"
        /\ handler' = "revertCommit"
        /\ frame' = [NoFrame EXCEPT !.commitHash = commitHash]
        /\ Asks({"Yes", "No"}, "confirm")
        /\ UNCHANGED <<repo, answers, execs, onRefreshCalls, branchRefreshCalls,
                       otherVars>>

\* revertCommit from the answer on
RevertCommitConfirm ==
    /\ handler = "revertCommit"
    /\ step = "confirm"
    /\ \E confirm \in prompt[1] \cup {Undefined} :
           /\ answers' = Append(answers, confirm)
           /\ IF ~Confirmed(confirm, "Yes") \/ ~workspaceFolder
              THEN Returns
              ELSE Awaits(Revert(frame.commitHash), "revert")
    /\ UNCHANGED <<repo, handler, frame, execs, onRefreshCalls, branchRefreshCalls,
                   otherVars>>

RevertCommitExit == CallbackRefreshes("revertCommit", "revert")

\* resetToCommit(commitHash) up to its first await
ResetToCommit ==
    \E commitHash \in Hashes :
        /\ handler = "none"
        /\ handler' = "resetToCommit"
        /\ frame' = [NoFrame EXCEPT !.commitHash = commitHash]
        /\ Asks({t.label : t \in ResetTypes}, "resetType")
        /\ UNCHANGED <<repo, answers, execs, onRefreshCalls, branchRefreshCalls,
                       otherVars>>

\* resetToCommit from the picked type to its second await
ResetToCommitType ==
    /\ handler = "resetToCommit"
    /\ step = "resetType"
    /\ \E resetType \in prompt[1] \cup {Undefined} :
           /\ answers' = Append(answers, resetType)
           /\ IF resetType = Undefined
              THEN Returns
              ELSE Asks({"Yes", "No"}, "confirm")
    /\ UNCHANGED <<repo, handler, frame, execs, onRefreshCalls, branchRefreshCalls,
                   otherVars>>

\* resetToCommit from the answer on
ResetToCommitConfirm ==
    /\ handler = "resetToCommit"
    /\ step = "confirm"
    /\ \E confirm \in prompt[1] \cup {Undefined} :
           /\ answers' = Append(answers, confirm)
           /\ IF ~Confirmed(confirm, "Yes") \/ ~workspaceFolder
              THEN Returns
              ELSE Awaits(Reset(ResetValue(answers[1]), frame.commitHash), "reset")
    /\ UNCHANGED <<repo, handler, frame, execs, onRefreshCalls, branchRefreshCalls,
                   otherVars>>

ResetToCommitExit == CallbackRefreshes("resetToCommit", "reset")

\* the selections the range menu offers to squash: two or more rows next to
\* each other, newest first, with the first parent of the oldest ('' for the
\* root commit)
Selections ==
    {[hashes |-> [k \in 0..(p[1] - p[2]) |-> p[1] - k], parentHash |-> p[2] - 1] :
        p \in {q \in Hashes \X Hashes : q[2] < q[1]}}

\* squashCommits(hashes, parentHash) up to its first await
SquashCommits ==
    \E sel \in Selections :
        /\ handler = "none"
        /\ handler' = "squashCommits"
        /\ frame' = [NoFrame EXCEPT !.hashes = sel.hashes,
                                    !.parentHash = sel.parentHash]
        /\ IF sel.parentHash = NoHash \/ ~workspaceFolder
           THEN Returns
           ELSE Asks({"squashed"}, "newMessage")
        /\ UNCHANGED <<repo, answers, execs, onRefreshCalls, branchRefreshCalls,
                       otherVars>>

\* squashCommits from the message to its second await
SquashCommitsMessage ==
    /\ handler = "squashCommits"
    /\ step = "newMessage"
    /\ \E newMessage \in prompt[1] \cup {Undefined} :
           /\ answers' = Append(answers, newMessage)
           /\ frame' = [frame EXCEPT !.newMessage = newMessage]
           /\ IF newMessage = Undefined
              THEN Returns
              ELSE Awaits(RevParseHead, "headHash")
    /\ UNCHANGED <<repo, handler, execs, onRefreshCalls, branchRefreshCalls,
                   otherVars>>

\* squashCommits from headHash on: soft reset when the selection ends at
\* HEAD, otherwise the two editor scripts and a rebase
SquashCommitsHead ==
    /\ handler = "squashCommits"
    /\ step = "headHash"
    /\ \E res \in Run(repo, child[1]) :
           /\ Exited(res)
           /\ frame' = [frame EXCEPT !.headHash = HeadHash(res)]
           /\ IF frame.hashes[0] = HeadHash(res)
              THEN Awaits(Reset("--soft", frame.parentHash), "reset")
              ELSE Awaits(RebaseSquash(frame.parentHash, frame.hashes), "rebase")
    /\ UNCHANGED <<handler, answers, onRefreshCalls, branchRefreshCalls, otherVars>>

\* the callback of git reset --soft: error message and return, or git commit
SquashCommitsReset ==
    /\ handler = "squashCommits"
    /\ step = "reset"
    /\ \E res \in Run(repo, child[1]) :
           /\ Exited(res)
           /\ IF res.error THEN Returns ELSE Awaits(Commit, "commit")
    /\ UNCHANGED <<handler, frame, answers, onRefreshCalls, branchRefreshCalls,
                   otherVars>>

SquashCommitsCommitted == CallbackRefreshes("squashCommits", "commit")

SquashCommitsRebased == CallbackRebase("squashCommits")

\* cherryPickRange(hashes)
CherryPickRange ==
    \E sel \in Selections :
        /\ handler = "none"
        /\ handler' = "cherryPickRange"
        /\ frame' = [NoFrame EXCEPT !.hashes = sel.hashes]
        /\ IF ~workspaceFolder
           THEN Returns
           ELSE Awaits(CherryPickOrdered(sel.hashes), "cherry-pick")
        /\ UNCHANGED <<repo, answers, execs, onRefreshCalls, branchRefreshCalls,
                       otherVars>>

CherryPickRangeExit == CallbackRefreshes("cherryPickRange", "cherry-pick")

\* git-lean.deleteBranch up to its await
DeleteBranch ==
    \E branchName \in BranchNames :
        /\ handler = "none"
        /\ handler' = "deleteBranch"
        /\ frame' = [NoFrame EXCEPT !.branchName = branchName]
        /\ Asks({"Yes", "No"}, "confirm")
        /\ UNCHANGED <<repo, answers, execs, onRefreshCalls, branchRefreshCalls,
                       otherVars>>

\* deleteBranch from the answer on
DeleteBranchConfirm ==
    /\ handler = "deleteBranch"
    /\ step = "confirm"
    /\ \E confirm \in prompt[1] \cup {Undefined} :
           /\ answers' = Append(answers, confirm)
           /\ IF ~Confirmed(confirm, "Yes") \/ ~workspaceFolder
              THEN Returns
              ELSE Awaits(BranchDelete("-d", frame.branchName), "delete")
    /\ UNCHANGED <<repo, handler, frame, execs, onRefreshCalls, branchRefreshCalls,
                   otherVars>>

\* a test of stderr that takes every failure for an unmerged branch
NotFullyMergedAlways(stderr) == TRUE

\* stderr.includes('not fully merged')
NotFullyMerged(stderr) == "not fully merged" \in stderr

\* the callback of git branch -d up to its await
DeleteBranchExit ==
    /\ handler = "deleteBranch"
    /\ step = "delete"
    /\ \E res \in Run(repo, child[1]) :
           /\ Exited(res)
           /\ IF res.error
              THEN /\ IF NotFullyMerged(res.stderr)
                      THEN Asks({"Force Delete", "Cancel"}, "forceConfirm")
                      ELSE Returns
                   /\ UNCHANGED branchRefreshCalls
              ELSE /\ Returns
                   /\ branchRefreshCalls' = branchRefreshCalls + 1
    /\ UNCHANGED <<handler, frame, answers, onRefreshCalls, otherVars>>

\* the callback of git branch -d from the second answer on
DeleteBranchForce ==
    /\ handler = "deleteBranch"
    /\ step = "forceConfirm"
    /\ \E forceConfirm \in prompt[1] \cup {Undefined} :
           /\ answers' = Append(answers, forceConfirm)
           /\ IF ~Confirmed(forceConfirm, "Force Delete")
              THEN Returns
              ELSE Awaits(BranchDelete("-D", frame.branchName), "forceDelete")
    /\ UNCHANGED <<repo, handler, frame, execs, onRefreshCalls, branchRefreshCalls,
                   otherVars>>

\* the callback of cp.execFile in extension.ts: error message and return, or
\* information message and branchProvider.refresh()
CallbackRefreshesBranches(name, s) ==
    /\ handler = name
    /\ step = s
    /\ \E res \in Run(repo, child[1]) :
           /\ Exited(res)
           /\ branchRefreshCalls' = RefreshAfter(res.error, branchRefreshCalls)
    /\ Returns
    /\ UNCHANGED <<handler, frame, answers, onRefreshCalls, otherVars>>

DeleteBranchForceExit == CallbackRefreshesBranches("deleteBranch", "forceDelete")

\* git-lean.pushForce up to its await
PushForce ==
    /\ handler = "none"
    /\ handler' = "pushForce"
    /\ Asks({"Force Push", "Cancel"}, "confirm")
    /\ UNCHANGED <<repo, frame, answers, execs, onRefreshCalls, branchRefreshCalls,
                   otherVars>>

\* pushForce from the answer on
PushForceConfirm ==
    /\ handler = "pushForce"
    /\ step = "confirm"
    /\ \E confirm \in prompt[1] \cup {Undefined} :
           /\ answers' = Append(answers, confirm)
           /\ IF ~Confirmed(confirm, "Force Push") \/ ~workspaceFolder
              THEN Returns
              ELSE Awaits(PushForceWithLease, "push")
    /\ UNCHANGED <<repo, handler, frame, execs, onRefreshCalls, branchRefreshCalls,
                   otherVars>>

PushForceExit == CallbackRefreshesBranches("pushForce", "push")

\* a repository with n commits on the checked-out branch, perhaps with
\* staged changes and some branches; a workspace folder is open or not
InitCommands ==
    /\ commits = <<>>
    /\ pc = "host"
    /\ idx = 0
    /\ commitLanes = EmptyMap
    /\ reservedLanes = EmptyMap
    /\ nextLane = 0
    /\ rows = <<>>
    /\ sortedIndices = <<>>
    /\ consecutive = FALSE
    /\ InitCall /\ InitView /\ InitHost /\ InitPanel
    /\ workspaceFolder \in BOOLEAN
    /\ \E n \in 0..MaxHistory, staged \in BOOLEAN,
          branches \in SUBSET (BranchNames \ {"gone"}) :
           repo = [EmptyRepo EXCEPT !.history = [i \in 1..n |-> n + 1 - i],
                                    !.staged = staged, !.branches = branches]
    /\ before = repo
    /\ IdleHandler

NextCommands ==
    \/ EditCommitMessage \/ EditCommitMessageHead \/ EditCommitMessageAmended
    \/ EditCommitMessageRebased
    \/ CherryPickCommit \/ CherryPickCommitExit
    \/ RevertCommit \/ RevertCommitConfirm \/ RevertCommitExit
    \/ ResetToCommit \/ ResetToCommitType \/ ResetToCommitConfirm \/ ResetToCommitExit
    \/ SquashCommits \/ SquashCommitsMessage \/ SquashCommitsHead
    \/ SquashCommitsReset \/ SquashCommitsCommitted \/ SquashCommitsRebased
    \/ CherryPickRange \/ CherryPickRangeExit
    \/ DeleteBranch \/ DeleteBranchConfirm \/ DeleteBranchExit \/ DeleteBranchForce
    \/ DeleteBranchForceExit
    \/ PushForce \/ PushForceConfirm \/ PushForceExit
    \/ RebaseAbortExit

SpecCommands == InitCommands /\ [][NextCommands]_vars

\* ------------------------------------------------------------------------
\* Properties
\* ------------------------------------------------------------------------
NumCommits == ArrLen(commits)

LanesDone == pc = "calculateLanes" /\ idx = NumCommits

Rendered == pc = "rendered"

HashesOf(cs) == {cs[i].hash : i \in DOMAIN cs}

\* C1: calculateLanes returns a map whose keys are exactly the hashes of the
\* commits of the list (a parent outside the list gets no entry), and every
\* lane is a non-negative integer.
C1_LaneForEveryCommit ==
    (LanesDone \/ Rendered) =>
        /\ DOMAIN commitLanes = HashesOf(commits)
        /\ \A h \in DOMAIN commitLanes : commitLanes[h] \in Nat

C1_Witness ==
    /\ LanesDone
    /\ NumCommits >= 3
    /\ \E i \in DOMAIN commits : ArrIncludes(commits[i].parents, UnknownHash)
    /\ \E i \in DOMAIN commits : \E h \in HashesOf(commits) :
           ArrIncludes(commits[i].parents, h)
    /\ UnknownHash \notin DOMAIN commitLanes

\* C2: the four-commit scenario of the specification
Scenario ==
    Arr(<<[hash |-> "c3", parents |-> Arr(<<"c2">>)],
          [hash |-> "c2", parents |-> Arr(<<"c1", "b1">>)],
          [hash |-> "c1", parents |-> <<>>],
          [hash |-> "b1", parents |-> Arr(<<"c1">>)]>>)

\* C2: on [c3(c2), c2(c1,b1), c1(), b1(c1)] the lanes are c3:0, c2:0, c1:0,
\* b1:1; row 1 has mergeOutgoingToLanes=[1], row 3 has
\* mergeIncomingFromLanes=[0], row 2 has hasIncoming and not hasOutgoing.
C2_ConcreteScenario ==
    (Rendered /\ commits = Scenario) =>
        /\ commitLanes = [h \in {"c3", "c2", "c1", "b1"} |-> IF h = "b1" THEN 1 ELSE 0]
        /\ rows[1].mergeOutgoingToLanes = Arr(<<1>>)
        /\ rows[3].mergeIncomingFromLanes = Arr(<<0>>)
        /\ rows[2].hasIncoming = TRUE
        /\ rows[2].hasOutgoing = FALSE

C2_Witness == Rendered /\ commits = Scenario

\* a single chain listed newest first: each commit's only parent is the next
\* commit of the list, the last one a root or with a parent outside the list
LinearChain(cs) ==
    /\ ArrLen(cs) >= 1
    /\ \A i \in DOMAIN cs :
           IF i < ArrLen(cs) - 1
           THEN cs[i].parents = Arr(<<cs[i + 1].hash>>)
           ELSE \/ cs[i].parents = <<>>
                \/ /\ ArrLen(cs[i].parents) = 1
                   /\ cs[i].parents[0] \notin HashesOf(cs)

\* C3: every commit of a linear chain gets the same lane
C3_LinearChainOneLane ==
    LinearChain(commits) =>
        \A h, g \in DOMAIN commitLanes : commitLanes[h] = commitLanes[g]

C3_Witness ==
    /\ LinearChain(commits)
    /\ NumCommits >= 3
    /\ LanesDone
    /\ DOMAIN commitLanes = HashesOf(commits)

\* the reservations pending when parent number j of the commit being visited
\* is handled: the old ones (without the visited commit's own) and those just
\* made for the parents before j
PendingAt(M, j) ==
    {reservedLanes[h] : h \in (DOMAIN reservedLanes) \ {M.hash}}
        \cup {reservedLanes'[M.parents[k]] : k \in 0..(j - 1)}

\* C4: visiting a merge commit whose parents have no reservation yet gives the
\* first parent the commit's lane and every additional parent the lowest lane
\* that no pending reservation holds; nextLane ends above that lane.
C4_Step ==
    (/\ pc = "calculateLanes" /\ idx < NumCommits /\ idx' = idx + 1
     /\ ArrLen(commits[idx].parents) >= 2
     /\ \A k \in DOMAIN commits[idx].parents :
            commits[idx].parents[k] \notin DOMAIN reservedLanes)
    => LET M == commits[idx]
       IN  /\ reservedLanes'[M.parents[0]] = commitLanes'[M.hash]
           /\ \A j \in 1..(ArrLen(M.parents) - 1) :
                  LET newLane == reservedLanes'[M.parents[j]]
                  IN  /\ newLane \notin PendingAt(M, j)
                      /\ \A l \in 0..(newLane - 1) : l \in PendingAt(M, j)
                      /\ nextLane' > newLane

C4_MergeParents == [][C4_Step]_vars

\* a merge commit has just been visited, none of its parents had been reserved
\* by an earlier commit, and a reservation made earlier is still pending
C4_Witness ==
    /\ pc = "calculateLanes"
    /\ idx >= 2
    /\ LET M == commits[idx - 1]
       IN  /\ ArrLen(M.parents) >= 2
           /\ \A k \in DOMAIN M.parents : \A i \in 0..(idx - 2) :
                  ~ArrIncludes(commits[i].parents, M.parents[k])
           /\ \E h \in DOMAIN reservedLanes : ~ArrIncludes(M.parents, h)
           /\ \E k \in DOMAIN M.parents : reservedLanes[M.parents[k]] + 1 < nextLane

\* row of a hash of the list
RowOf(h) == CHOOSE i \in DOMAIN commits : commits[i].hash = h

LaneOfRow(i) == commitLanes[commits[i].hash]

\* the parent edges drawn by calculateRowGraphData: <<i, j>> with the commit of
\* row j a parent of the commit of row i and j below i
Edges ==
    {e \in (DOMAIN commits) \X (DOMAIN commits) :
        e[1] < e[2] /\ ArrIncludes(commits[e[1]].parents, commits[e[2]].hash)}

\* edges to a parent more than one row below, in another lane than the child
LongCrossEdges == {e \in Edges : e[2] > e[1] + 1 /\ LaneOfRow(e[2]) # LaneOfRow(e[1])}

Passthrough(r) == ArrValues(rows[r].passthroughLanes)

\* every parent of the list that is in the list comes after its children, as
\* "git log --date-order" lists them
DateOrdered(cs) ==
    \A i, j \in DOMAIN cs : ArrIncludes(cs[i].parents, cs[j].hash) => i < j

Between(e) == (e[1] + 1)..(e[2] - 1)

Outside(e) == {r \in DOMAIN commits : r <= e[1] \/ r >= e[2]}

\* C5 as stated: if the commit of row i has a parent at row j > i+1 in another
\* lane, every row strictly between i and j has the parent's lane in its
\* passthroughLanes and no row outside [i+1, j-1] has it. Stated here for the
\* lists git log --date-order produces.
C5_OnlyBetween ==
    (Rendered /\ DateOrdered(commits)) =>
        \A e \in LongCrossEdges :
            /\ \A r \in Between(e) : LaneOfRow(e[2]) \in Passthrough(r)
            /\ \A r \in Outside(e) : LaneOfRow(e[2]) \notin Passthrough(r)

\* C5 amended: every row strictly between i and j has the parent's lane in its
\* passthroughLanes, and a row outside [i+1, j-1] has that lane in its
\* passthroughLanes only when it lies strictly between the two rows of another
\* parent edge whose parent is in that lane.
C5_PassthroughBetween ==
    Rendered =>
        \A e \in LongCrossEdges :
            /\ \A r \in Between(e) : LaneOfRow(e[2]) \in Passthrough(r)
            /\ \A r \in Outside(e) :
                   LaneOfRow(e[2]) \in Passthrough(r) =>
                       \E f \in Edges :
                           f[1] < r /\ r < f[2] /\ LaneOfRow(f[2]) = LaneOfRow(e[2])

C5_Witness ==
    /\ Rendered
    /\ DateOrdered(commits)
    /\ \E e \in LongCrossEdges :
           /\ \E r \in Outside(e) : LaneOfRow(e[2]) \in Passthrough(r)
           /\ \E r \in Outside(e) : LaneOfRow(e[2]) \notin Passthrough(r)

\* C6: hasIncoming of row i is true exactly when a commit of an earlier row
\* lists the commit of row i among its parents (so it is false for row 0).
C6_HasIncoming ==
    Rendered =>
        \A i \in DOMAIN commits :
            /\ rows[i].hasIncoming =
                   (\E k \in 0..(i - 1) : ArrIncludes(commits[k].parents, commits[i].hash))
            /\ (i = 0 => rows[i].hasIncoming = FALSE)

C6_Witness ==
    /\ Rendered
    /\ \E i \in DOMAIN commits : rows[i].hasIncoming
    /\ \E i \in DOMAIN commits :
           /\ i > 0
           /\ ~rows[i].hasIncoming
           /\ \E k \in DOMAIN commits : ArrIncludes(commits[k].parents, commits[i].hash)

\* C7: hasOutgoing of row i is true exactly when a parent of its commit is in
\* the list at a later row; a root commit and a commit whose parents are all
\* outside the list have hasOutgoing = false and no mergeOutgoingToLanes.
C7_HasOutgoing ==
    Rendered =>
        \A i \in DOMAIN commits :
            /\ rows[i].hasOutgoing = (\E j \in DOMAIN commits : <<i, j>> \in Edges)
            /\ (\A k \in DOMAIN commits[i].parents :
                      commits[i].parents[k] \notin HashesOf(commits))
                  => /\ rows[i].hasOutgoing = FALSE
                     /\ rows[i].mergeOutgoingToLanes = <<>>

C7_Witness ==
    /\ Rendered
    /\ \E i \in DOMAIN commits : commits[i].parents = <<>>
    /\ \E i \in DOMAIN commits :
           /\ commits[i].parents # <<>>
           /\ \A k \in DOMAIN commits[i].parents :
                  commits[i].parents[k] \notin HashesOf(commits)
    /\ \E i \in DOMAIN commits : rows[i].hasOutgoing
    /\ \E i \in DOMAIN commits :
           /\ ~rows[i].hasOutgoing
           /\ \E k \in DOMAIN commits[i].parents :
                  commits[i].parents[k] \in HashesOf(commits)

MergeOutgoing(i) == ArrValues(rows[i].mergeOutgoingToLanes)

MergeIncoming(j) == ArrValues(rows[j].mergeIncomingFromLanes)

\* C8: a lane L2 in mergeOutgoingToLanes of row i differs from the row's own
\* lane L1 and every parent of row i in lane L2 below it has L1 in its
\* mergeIncomingFromLanes; every entry L1 of mergeIncomingFromLanes of row j
\* comes from an earlier row in lane L1 that lists row j's commit as a parent
\* and has row j's lane in its mergeOutgoingToLanes.
C8_MergeCurveSymmetry ==
    Rendered =>
        /\ \A i \in DOMAIN commits : \A L2 \in MergeOutgoing(i) :
               /\ L2 # LaneOfRow(i)
               /\ \E j \in DOMAIN commits : <<i, j>> \in Edges /\ LaneOfRow(j) = L2
               /\ \A j \in DOMAIN commits :
                      (<<i, j>> \in Edges /\ LaneOfRow(j) = L2)
                          => LaneOfRow(i) \in MergeIncoming(j)
        /\ \A j \in DOMAIN commits : \A L1 \in MergeIncoming(j) :
               \E i \in DOMAIN commits :
                   /\ <<i, j>> \in Edges
                   /\ LaneOfRow(i) = L1
                   /\ LaneOfRow(j) \in MergeOutgoing(i)

C8_Witness ==
    /\ Rendered
    /\ \E i, j \in DOMAIN commits :
           /\ j > i + 1
           /\ LaneOfRow(j) \in MergeOutgoing(i)
           /\ LaneOfRow(i) \in MergeIncoming(j)
           /\ ArrLen(rows[j].mergeIncomingFromLanes) >= 2

Checked == pc = "checked"

Selected(k) == commits[sortedIndices[k]]

IsMerge(c) == ArrLen(c.parents) >= 2

\* C9: areCommitsConsecutive returns true exactly when, for every adjacent pair
\* of positions k, k+1 of sortedIndices, the commit at k has exactly one parent
\* and it is the commit at k+1; an empty or single-row selection gives true.
C9_ConsecutiveIff ==
    Checked =>
        /\ consecutive =
               (\A k \in 0..(ArrLen(sortedIndices) - 2) :
                    /\ ArrLen(Selected(k).parents) = 1
                    /\ Selected(k).parents[0] = Selected(k + 1).hash)
        /\ (ArrLen(sortedIndices) <= 1 => consecutive = TRUE)

C9_Witness ==
    /\ Checked
    /\ ArrLen(sortedIndices) >= 3
    /\ consecutive = TRUE

\* C10 as stated: areCommitsConsecutive returns false whenever any selected
\* commit, the oldest one included, is a merge commit. Stated here for the
\* calls GraphView makes: a date-ordered list and two or more selected rows.
C10_NoMergeAnywhere ==
    (/\ Checked
     /\ DateOrdered(commits)
     /\ ArrLen(sortedIndices) >= 2
     /\ \E k \in DOMAIN sortedIndices : IsMerge(Selected(k)))
        => consecutive = FALSE

\* C10 amended: areCommitsConsecutive returns false whenever a selected commit
\* other than the oldest selected one is a merge commit.
C10_NoMergeBeforeOldest ==
    (Checked /\ \E k \in 0..(ArrLen(sortedIndices) - 2) : IsMerge(Selected(k)))
        => consecutive = FALSE

\* a merge commit inside the selection, one of whose parents is the next
\* selected commit
C10_Witness ==
    /\ Checked
    /\ ArrLen(sortedIndices) >= 3
    /\ \E k \in 1..(ArrLen(sortedIndices) - 2) :
           /\ IsMerge(Selected(k))
           /\ ArrIncludes(Selected(k).parents, Selected(k + 1).hash)
           /\ Selected(k - 1).parents = Arr(<<Selected(k).hash>>)
    /\ consecutive = FALSE

\* ------------------------------------------------------------------------
\* Reservation policy of calculateLanes
\* ------------------------------------------------------------------------
Visiting == pc = "calculateLanes" /\ idx < NumCommits /\ idx' = idx + 1

\* rows above row i whose commit lists the commit of row i as a parent
EarlierChildren(i) == {k \in 0..(i - 1) : ArrIncludes(commits[k].parents, commits[i].hash)}

EarliestChild(i) == CHOOSE k \in EarlierChildren(i) : \A q \in EarlierChildren(i) : k <= q

VisitedRows == 0..(idx - 1)

\* a reservation is left alone until its commit is visited, and then it is the
\* commit's lane
C14_Step ==
    Visiting =>
        LET M == commits[idx]
        IN  /\ \A h \in (DOMAIN reservedLanes) \ {M.hash} :
                   h \in DOMAIN reservedLanes' /\ reservedLanes'[h] = reservedLanes[h]
            /\ M.hash \in DOMAIN reservedLanes => commitLanes'[M.hash] = reservedLanes[M.hash]
            /\ (M.hash \in DOMAIN reservedLanes) = (EarlierChildren(idx) # {})

\* a commit that is the first parent of its earliest child has that child's lane
C14_Inv ==
    pc = "calculateLanes" =>
        \A p \in VisitedRows :
            (/\ EarlierChildren(p) # {}
             /\ commits[EarliestChild(p)].parents[0] = commits[p].hash)
                => LaneOfRow(p) = LaneOfRow(EarliestChild(p))

\* C14: first writer wins: a reservation, once made, is never overwritten by a
\* later child, so a commit with a child earlier in the list gets the lane its
\* earliest child reserved (that child's own lane when it is the child's first
\* parent).
C14_FirstWriterWins == [](C14_Inv) /\ [][C14_Step]_vars

\* a commit with two earlier children in different lanes, first parent of both
C14_Witness ==
    /\ LanesDone
    /\ \E p \in DOMAIN commits : \E c, d \in EarlierChildren(p) :
           /\ c < d
           /\ commits[c].parents[0] = commits[p].hash
           /\ commits[d].parents[0] = commits[p].hash
           /\ LaneOfRow(c) # LaneOfRow(d)
           /\ LaneOfRow(p) = LaneOfRow(c)

LanesOf(m) == {m[h] : h \in DOMAIN m}

C15_Inv ==
    pc = "calculateLanes" =>
        \A l \in LanesOf(commitLanes) \cup LanesOf(reservedLanes) : l < nextLane

C15_Step ==
    Visiting =>
        /\ nextLane' >= nextLane
        /\ commits[idx].hash \notin DOMAIN reservedLanes =>
               /\ commitLanes'[commits[idx].hash] = nextLane
               /\ nextLane' > nextLane

\* C15: a commit without a reservation gets the current nextLane, which is
\* above every lane assigned so far and every pending reservation; nextLane
\* never decreases, so a freed lower lane is never recycled for such a commit.
C15_FreshLaneGrows == [](C15_Inv) /\ [][C15_Step]_vars

\* a commit without reservation has been given a new lane although a lower
\* lane was free (no pending reservation held it)
C15_Witness ==
    /\ pc = "calculateLanes"
    /\ idx >= 2
    /\ EarlierChildren(idx - 1) = {}
    /\ \E l \in 0..(LaneOfRow(idx - 1) - 1) :
           /\ l \notin LanesOf(reservedLanes)
           /\ \A k \in 0..(idx - 2) : \A j \in DOMAIN commits[k].parents :
                  commits[k].parents[j] \notin DOMAIN reservedLanes

\* the commits visited so far that had no reservation when they were visited:
\* a commit has a reservation when it is visited exactly when a row above it
\* lists it as a parent (third conjunct of C14_Step)
FreshRows == {i \in VisitedRows : EarlierChildren(i) = {}}

RECURSIVE SumAdditional(_)
SumAdditional(i) ==
    IF i = 0 THEN 0
    ELSE SumAdditional(i - 1) + Max(ArrLen(commits[i - 1].parents) - 1, 0)

\* C16 as stated: the number of distinct lanes used is at most the number of
\* commits that had no reservation when they were visited. Stated here for
\* the lists git log --date-order produces.
C16_LanesCappedByTips ==
    (LanesDone /\ DateOrdered(commits)) =>
        Cardinality(LanesOf(commitLanes)) <= Cardinality(FreshRows)

\* C16 amended: the number of distinct lanes used is at most the number of
\* commits that had no reservation when they were visited plus the number of
\* parents beyond the first of the commits of the list.
C16_LanesCappedByTipsAndMerges ==
    pc = "calculateLanes" =>
        /\ Cardinality(LanesOf(commitLanes)) <= nextLane
        /\ nextLane <= Cardinality(FreshRows) + SumAdditional(idx)

C16_Witness ==
    /\ LanesDone
    /\ DateOrdered(commits)
    /\ Cardinality(LanesOf(commitLanes)) > Cardinality(FreshRows)
    /\ Cardinality(FreshRows) >= 2

\* the edges that cross row r: child above, parent below
Crossing(r) == {e \in Edges : e[1] < r /\ r < e[2]}

\* C17: passthroughLanes of row r holds, each once, exactly the lanes of the
\* parents that a commit above row r lists and that are in the list below row
\* r, without row r's own lane.
C17_PassthroughExact ==
    Rendered =>
        \A r \in DOMAIN commits :
            /\ Passthrough(r) = {LaneOfRow(e[2]) : e \in Crossing(r)} \ {LaneOfRow(r)}
            /\ ArrLen(rows[r].passthroughLanes) = Cardinality(Passthrough(r))
            /\ LaneOfRow(r) \notin Passthrough(r)

C17_Witness ==
    /\ Rendered
    /\ \E r \in DOMAIN commits : \E e, f \in Crossing(r) :
           /\ e # f
           /\ LaneOfRow(e[2]) = LaneOfRow(f[2])
           /\ LaneOfRow(e[2]) \in Passthrough(r)
    /\ \E r \in DOMAIN commits : Cardinality(Passthrough(r)) >= 2

RangeMenuOpen == rangeMenu # Null

\* the rows from the anchor to row j, whichever is lower
RowsBetween(a, j) == {r \in DOMAIN commits : (a <= r /\ r <= j) \/ (j <= r /\ r <= a)}

StrictlyAscending(a) == \A k, l \in DOMAIN a : k < l => a[k] < a[l]

\* C12: the range menu opens only by a right-click on a row of a selection of
\* two or more rows; while it is open it offers 'Squash Commits' exactly when
\* areCommitsConsecutive holds for the selected rows in ascending order, and
\* it always offers 'Cherry-pick Commits'
C12_Inv ==
    RangeMenuOpen =>
        LET menu == rangeMenu[1]
        IN  /\ Cardinality(selectedIndices) >= 2
            /\ StrictlyAscending(menu.sortedIndices)
            /\ ArrValues(menu.sortedIndices) = selectedIndices
            /\ ("squashCommits" \in RangeMenuItems(menu))
                   = AreCommitsConsecutive(commits, menu.sortedIndices)
            /\ "cherryPickRange" \in RangeMenuItems(menu)

C12_Step ==
    (~RangeMenuOpen /\ RangeMenuOpen') =>
        /\ Cardinality(selectedIndices) >= 2
        /\ \E index \in selectedIndices : HandleContextMenuOn(index)

C12_RangeMenu == [](C12_Inv) /\ [][C12_Step]_vars

\* the range menu is open over three rows of which the first two are
\* consecutive and the third is not their continuation: no squash item
C12_Witness ==
    /\ RangeMenuOpen
    /\ Cardinality(selectedIndices) >= 3
    /\ RangeMenuItems(rangeMenu[1]) = {"cherryPickRange"}
    /\ LET sorted == rangeMenu[1].sortedIndices
       IN  AreCommitsConsecutive(commits, [k \in 0..1 |-> sorted[k]])

\* C13: a plain click on row i selects exactly {i} and makes i the anchor; a
\* shift-click on row j with anchor a selects exactly the rows from min(a, j)
\* to max(a, j) and keeps the anchor; a shift-click without anchor acts as a
\* plain click
C13_Step ==
    \A i \in DOMAIN commits :
        /\ HandleRowClickOn(i, FALSE) =>
               (selectedIndices' = {i} /\ rangeStartIndex' = Some(i))
        /\ (HandleRowClickOn(i, TRUE) /\ rangeStartIndex # Null) =>
               /\ selectedIndices' = RowsBetween(rangeStartIndex[1], i)
               /\ rangeStartIndex' = rangeStartIndex
        /\ (HandleRowClickOn(i, TRUE) /\ rangeStartIndex = Null) =>
               (selectedIndices' = {i} /\ rangeStartIndex' = Some(i))

C13_ClickSelects == [][C13_Step]_vars

\* a shift-click on row 0, above the anchor, selected three rows or more, the
\* anchor being the last of them
C13_Witness ==
    /\ rangeStartIndex # Null
    /\ Cardinality(selectedIndices) >= 3
    /\ 0 \in selectedIndices
    /\ \A r \in selectedIndices : r <= rangeStartIndex[1]
    /\ singleMenu = Null
    /\ rangeMenu = Null

\* C20: the hashes of a cherryPickRange message are those of the selected
\* rows in ascending row order, and the git cherry-pick command lists the
\* hashes of the message in exactly the reverse order, each once: the k-th
\* argument is the hash of the k-th selected row from the bottom
C20_Inv ==
    /\ (posted # Null /\ posted[1].command = "cherryPickRange") =>
           LET hashes == posted[1].hashes
               sorted == SortAscending(selectedIndices)
           IN  /\ ArrLen(hashes) = Cardinality(selectedIndices)
               /\ \A k \in DOMAIN hashes : hashes[k] = commits[sorted[k]].hash
    /\ gitCommand # Null =>
           LET words == gitCommand[1]
               n == Cardinality(selectedIndices)
               sorted == SortAscending(selectedIndices)
           IN  /\ Len(words) = n + 2
               /\ words[1] = "git"
               /\ words[2] = "cherry-pick"
               /\ \A k \in 1..n : words[k + 2] = commits[sorted[n - k]].hash
               /\ \A k, l \in 1..n : k # l => words[k + 2] # words[l + 2]

C20_Step ==
    (posted # Null /\ posted' = Null /\ posted[1].command = "cherryPickRange") =>
        LET hashes == posted[1].hashes
        IN  /\ gitCommand' # Null
            /\ \A k \in DOMAIN hashes :
                   gitCommand'[1][k + 3] = hashes[ArrLen(hashes) - 1 - k]

C20_OldestFirst == [](C20_Inv) /\ [][C20_Step]_vars

\* three rows were selected and the command names the last row first
C20_Witness ==
    /\ gitCommand # Null
    /\ Len(gitCommand[1]) >= 5
    /\ gitCommand[1][3] = commits[2].hash
    /\ gitCommand[1][5] = commits[0].hash

\* ------------------------------------------------------------------------
\* Extension host
\* ------------------------------------------------------------------------
\* C18: at most one mutating git command runs at a time, and a running
\* rebase has the editor scripts it wrote itself
C18_OneMutationAtATime ==
    /\ Cardinality(running) <= 1
    /\ \A o \in running : o.scripts => scriptFiles = o.id

\* C19: once no refresh of the view is under way, the page shows the result
\* of the refresh started last, and a result is never replaced by the result
\* of a refresh started earlier
C19_Inv == (inflight = {} /\ started > 0) => shown = started

C19_Step == shown' >= shown

C19_NewestShown == [](C19_Inv) /\ [][C19_Step]_vars

\* ------------------------------------------------------------------------
\* Lanes and rows: collisions, continuity, density
\* ------------------------------------------------------------------------
\* C22: at every point of the pass of calculateLanes no two distinct hashes
\* of reservedLanes hold the same lane
C22_ReservationsInjective ==
    pc = "calculateLanes" =>
        \A g, h \in DOMAIN reservedLanes : g # h => reservedLanes[g] # reservedLanes[h]

\* three reservations are pending at once, after a lane was freed and taken
\* again: lane 0 is pending while a commit already sits in lane 0
C22_Witness ==
    /\ pc = "calculateLanes"
    /\ Cardinality(DOMAIN reservedLanes) >= 3
    /\ \E h \in DOMAIN reservedLanes, c \in DOMAIN commitLanes :
           reservedLanes[h] = commitLanes[c] /\ ~ArrIncludes(commits[RowOf(c)].parents, h)

\* C23: on a list whose in-list parents come after their children, the lane
\* of the commit of row r differs from the lane of every edge crossing row r,
\* and two edges crossing row r to different parents are in different lanes
C23_CollisionFree ==
    (Rendered /\ DateOrdered(commits)) =>
        \A r \in DOMAIN commits :
            /\ \A e \in Crossing(r) : LaneOfRow(e[2]) # LaneOfRow(r)
            /\ \A e, f \in Crossing(r) : e[2] # f[2] => LaneOfRow(e[2]) # LaneOfRow(f[2])

\* a row is crossed by two edges to different parents
C23_Witness ==
    /\ Rendered
    /\ DateOrdered(commits)
    /\ \E r \in DOMAIN commits : \E e, f \in Crossing(r) :
           /\ e[2] # f[2]
           /\ ArrLen(rows[r].passthroughLanes) >= 2

\* the lanes at which row r draws down to its bottom edge, and those at which
\* it draws from its top edge (GraphCanvas, steps 1 to 3)
BottomLanes(r) ==
    Passthrough(r)
        \cup (IF rows[r].hasOutgoing THEN {LaneOfRow(r)} ELSE {})
        \cup MergeOutgoing(r)

TopLanes(r) ==
    Passthrough(r)
        \cup (IF rows[r].hasIncoming THEN {LaneOfRow(r)} ELSE {})
        \cup MergeIncoming(r)

\* C24: for adjacent rows r and r+1 of a list as git log --date-order gives
\* it, the lanes drawn to the bottom edge of row r are the lanes drawn from
\* the top edge of row r+1
C24_Continuous ==
    (Rendered /\ DateOrdered(commits)) =>
        \A r \in DOMAIN commits :
            (r + 1) \in DOMAIN commits => BottomLanes(r) = TopLanes(r + 1)

AllParentsListed(cs) ==
    \A i \in DOMAIN cs : \A k \in DOMAIN cs[i].parents :
        cs[i].parents[k] \in HashesOf(cs)

\* C25: when every parent is in the list, after its children, the lanes given
\* to the n commits are exactly 0..k-1 for some k <= n
C25_LanesDense ==
    (LanesDone /\ AllParentsListed(commits) /\ DateOrdered(commits)) =>
        \E k \in 0..NumCommits : LanesOf(commitLanes) = 0..(k - 1)

\* a lane was freed and given to an additional parent again: three lanes or
\* more, fewer than commits
C25_Witness ==
    /\ LanesDone
    /\ AllParentsListed(commits)
    /\ DateOrdered(commits)
    /\ Cardinality(LanesOf(commitLanes)) >= 3
    /\ Cardinality(LanesOf(commitLanes)) < NumCommits

\* ------------------------------------------------------------------------
\* GraphView: menus and selection
\* ------------------------------------------------------------------------
SingleMenuOpen == singleMenu # Null

\* C26: at most one of the two menus is open; an open single-commit menu is
\* on the one selected row; an open range menu lists exactly the selected
\* rows, two or more, in ascending order; every row click closes both menus
C26_Inv ==
    /\ ~(SingleMenuOpen /\ RangeMenuOpen)
    /\ SingleMenuOpen =>
           /\ selectedIndices = {singleMenu[1].index}
           /\ singleMenu[1].hash = commits[singleMenu[1].index].hash
    /\ RangeMenuOpen =>
           /\ ArrValues(rangeMenu[1].sortedIndices) = selectedIndices
           /\ ArrLen(rangeMenu[1].sortedIndices) = Cardinality(selectedIndices)
           /\ ArrLen(rangeMenu[1].sortedIndices) >= 2
           /\ StrictlyAscending(rangeMenu[1].sortedIndices)

C26_Step ==
    \A i \in DOMAIN commits, shiftKey \in BOOLEAN :
        HandleRowClickOn(i, shiftKey) => (~SingleMenuOpen' /\ ~RangeMenuOpen')

C26_MenusMatchSelection == [](C26_Inv) /\ [][C26_Step]_vars

\* after a squash of two rows was sent, a right-click on a row outside that
\* selection opened the single-commit menu and reduced the selection to it
C26_Witness ==
    /\ SingleMenuOpen
    /\ singleMenu[1].index >= 1
    /\ posted # Null
    /\ posted[1].command = "squashCommits"
    /\ ArrLen(posted[1].hashes) >= 2
    /\ ~ArrIncludes(posted[1].hashes, singleMenu[1].hash)

\* C21: at most one Git Graph panel is live at any time; createOrShow creates
\* a panel only when none is live and otherwise reveals the live one without
\* creating another; disposing the panel clears the static reference, so the
\* reference names a panel exactly when that panel is live.
C21_Inv ==
    /\ Cardinality(LivePanels) <= 1
    /\ currentPanel # Null => currentPanel[1] \in LivePanels
    /\ currentPanel = Null => LivePanels = {}

C21_Step ==
    /\ \A column \in ActiveColumns :
           CreateOrShowOn(column) =>
               IF LivePanels = {}
               THEN /\ Len(panels') = Len(panels) + 1
                    /\ LivePanels' = {Len(panels')}
                    /\ currentPanel' = Some(Len(panels'))
               ELSE /\ Len(panels') = Len(panels)
                    /\ LivePanels' = LivePanels
                    /\ currentPanel' = currentPanel
                    /\ column # 0 => panels'[currentPanel[1]].column = column
    /\ DisposePanel => currentPanel' = Null

C21_OnePanel == [](C21_Inv) /\ [][C21_Step]_vars

\* a panel was closed and the command created a second one, which is now the
\* only live panel and is shown in the last column
C21_Witness ==
    /\ Len(panels) = 2
    /\ panels[1].disposed
    /\ currentPanel = Some(2)
    /\ LivePanels = {2}
    /\ panels[2].column = MaxColumns

\* the handler in progress has returned and no git process of it is running
Ended(name) == handler = name /\ step = "returned"

\* C27: squashCommits is all-or-nothing: when it ends without having reported
\* success (a git step failed, the message prompt was cancelled, parentHash
\* was empty), the branch has the commits it had before and no rebase is in
\* progress.
C27_AllOrNothing ==
    (Ended("squashCommits") /\ onRefreshCalls = 0) =>
        (repo.history = before.history /\ repo.sequencer = "")

\* the two ways it fails: git commit fails after the soft reset has moved the
\* branch, or git rebase --abort, whose result nobody looks at, fails
FailedCommitOrAbort ==
    /\ execs # <<>>
    /\ execs[Len(execs)].command \in {Commit, GitRebaseAbort}
    /\ execs[Len(execs)].error

\* apart from those two, a squash that did not succeed leaves the branch alone
C27_ButFailedCommitOrAbort ==
    (Ended("squashCommits") /\ onRefreshCalls = 0 /\ ~FailedCommitOrAbort) =>
        (repo.history = before.history /\ repo.sequencer = "")

\* the soft reset succeeded, git commit failed: squashCommits has returned
\* and the branch ends at parentHash
C27_Diverges ==
    /\ Ended("squashCommits")
    /\ onRefreshCalls = 0
    /\ Len(execs) = 3
    /\ execs[2].command = Reset("--soft", frame.parentHash) /\ ~execs[2].error
    /\ execs[3].command = Commit /\ execs[3].error
    /\ before.history = <<3, 2, 1>>
    /\ repo.history = <<1>>

\* the operations of GitOperations that change the repository
MutatingOperations ==
    {"editCommitMessage", "cherryPickCommit", "revertCommit", "resetToCommit",
     "squashCommits", "cherryPickRange"}

AllSucceeded == execs # <<>> /\ \A k \in DOMAIN execs : ~execs[k].error

Issued ==
    {execs[k].command : k \in DOMAIN execs}
        \cup (IF child = Null THEN {} ELSE {child[1]})

\* C29: deleteBranch runs git branch -d only after the answer 'Yes'; it runs
\* git branch -D only after -d failed with 'not fully merged' and the second
\* prompt was answered 'Force Delete'; after any other failure or answer it
\* ends with no forced delete and without refreshing the branch list, which
\* is refreshed only once a delete has succeeded.
C29_ForceOnlyWhenAsked ==
    handler = "deleteBranch" =>
        /\ \A c \in Issued :
               /\ c.git = "branch" /\ c.flag \in {"-d", "-D"}
               /\ c.name = frame.branchName
               /\ answers # <<>> /\ answers[1] = "Yes"
               /\ c.flag = "-D" =>
                      /\ execs # <<>>
                      /\ execs[1].command.flag = "-d"
                      /\ execs[1].error
                      /\ "not fully merged" \in execs[1].stderr
                      /\ answers = <<"Yes", "Force Delete">>
        /\ branchRefreshCalls <= 1
        /\ branchRefreshCalls = 1 <=>
               (step = "returned" /\ execs # <<>> /\ ~execs[Len(execs)].error)
        /\ onRefreshCalls = 0

\* the branch was not fully merged, the user chose Force Delete, the branch
\* is gone and the branch list was refreshed
C29_Witness ==
    /\ Ended("deleteBranch")
    /\ answers = <<"Yes", "Force Delete">>
    /\ Len(execs) = 2
    /\ execs[2].command = BranchDelete("-D", "wip")
    /\ ~execs[2].error
    /\ "wip" \in before.branches /\ "wip" \notin repo.branches
    /\ branchRefreshCalls = 1

\* C30: no destructive git command runs without its confirmation: git revert
\* only after 'Yes'; git reset only after a type was picked and 'Yes' was
\* answered, with the value of the picked type; git push --force-with-lease
\* only after 'Force Push'; a dismissed or declined prompt starts no git
\* command.
C30_ConfirmedFirst ==
    /\ handler = "revertCommit" =>
           \A c \in Issued :
               /\ c = Revert(frame.commitHash)
               /\ answers = <<"Yes">>
    /\ handler = "resetToCommit" =>
           \A c \in Issued :
               /\ c.git = "reset" /\ c.revs = <<frame.commitHash>>
               /\ Len(answers) = 2 /\ answers[2] = "Yes"
               /\ \/ answers[1] = "Soft" /\ c.flag = "--soft"
                  \/ answers[1] = "Mixed" /\ c.flag = "--mixed"
                  \/ answers[1] = "Hard" /\ c.flag = "--hard"
    /\ handler = "pushForce" =>
           \A c \in Issued :
               /\ c.git = "push" /\ c.flag = "--force-with-lease"
               /\ answers = <<"Force Push">>
    /\ \A c \in Issued :
           /\ c.git = "revert" => handler = "revertCommit"
           /\ c.git = "push" => handler = "pushForce"
           /\ c.git = "reset" => handler \in {"resetToCommit", "squashCommits"}

\* a hard reset to an older commit, picked and confirmed, has moved the branch
C30_Witness ==
    /\ Ended("resetToCommit")
    /\ answers = <<"Hard", "Yes">>
    /\ Len(execs) = 1
    /\ execs[1].command = Reset("--hard", frame.commitHash)
    /\ ~execs[1].error
    /\ Len(repo.history) < Len(before.history)
    /\ onRefreshCalls = 1

====
